---------------------------- MODULE Spec2Model ----------------------------
(***************************************************************************)
(* Ride booking agent: the place resolver (tools/geocode_location.py),     *)
(* the route estimator (tools/calculate_route.py) and the timing of the    *)
(* resolver's outbound requests.                                           *)
(*                                                                         *)
(* Python str values are TLA+ strings; dict results are records that carry *)
(* the set of keys the dict really has in the field "keys".                *)
(***************************************************************************)
EXTENDS Integers, Sequences, FiniteSets, TLC

(***************************************************************************)
(* Bounds of the model.                                                    *)
(***************************************************************************)
\* most candidates one geocoder response carries
MaxResults == 2
\* frames of geocode_location that fit on the interpreter stack
RecursionLimit == 3
\* last instant of the clock of the timing model, in milliseconds
MaxClock == 3000

(***************************************************************************)
(* Python str methods.                                                     *)
(***************************************************************************)
Uppers == "ABCDEFGHIJKLMNOPQRSTUVWXYZ"
Lowers == "abcdefghijklmnopqrstuvwxyz"

CharAt(s, i) == SubSeq(s, i, i)

IsUpper(c) == \E i \in 1..26 : CharAt(Uppers, i) = c
IsLower(c) == \E i \in 1..26 : CharAt(Lowers, i) = c
IsCased(c) == IsUpper(c) \/ IsLower(c)
IsSpace(c) == c = " "

LowerChar(c) ==
    IF IsUpper(c) THEN CharAt(Lowers, CHOOSE i \in 1..26 : CharAt(Uppers, i) = c) ELSE c
UpperChar(c) ==
    IF IsLower(c) THEN CharAt(Uppers, CHOOSE i \in 1..26 : CharAt(Lowers, i) = c) ELSE c

\* str.lower()
RECURSIVE Lower(_)
Lower(s) ==
    IF Len(s) = 0 THEN ""
    ELSE LowerChar(CharAt(s, 1)) \o Lower(SubSeq(s, 2, Len(s)))

\* str.strip()
RECURSIVE LStrip(_)
LStrip(s) ==
    IF Len(s) > 0 /\ IsSpace(CharAt(s, 1)) THEN LStrip(SubSeq(s, 2, Len(s))) ELSE s
RECURSIVE RStrip(_)
RStrip(s) ==
    IF Len(s) > 0 /\ IsSpace(CharAt(s, Len(s))) THEN RStrip(SubSeq(s, 1, Len(s) - 1)) ELSE s
Strip(s) == RStrip(LStrip(s))

\* k in s
Contains(k, s) ==
    \E i \in 1..(Len(s) - Len(k) + 1) : SubSeq(s, i, i + Len(k) - 1) = k

\* s.startswith(k)
StartsWith(s, k) == Len(k) <= Len(s) /\ SubSeq(s, 1, Len(k)) = k

\* len(s.split())
RECURSIVE WordCount(_)
WordCount(s) ==
    IF Len(s) = 0 THEN 0
    ELSE IF IsSpace(CharAt(s, 1)) THEN WordCount(SubSeq(s, 2, Len(s)))
    ELSE IF Len(s) = 1 \/ IsSpace(CharAt(s, 2)) THEN 1 + WordCount(SubSeq(s, 2, Len(s)))
    ELSE WordCount(SubSeq(s, 2, Len(s)))

\* s.replace(old, new), old non-empty
RECURSIVE Replace(_, _, _)
Replace(s, old, new) ==
    IF Len(s) < Len(old) THEN s
    ELSE IF SubSeq(s, 1, Len(old)) = old
         THEN new \o Replace(SubSeq(s, Len(old) + 1, Len(s)), old, new)
         ELSE CharAt(s, 1) \o Replace(SubSeq(s, 2, Len(s)), old, new)

\* s.split(sep), sep non-empty: the pieces of s between the occurrences of sep
RECURSIVE SplitAt(_, _, _, _)
SplitAt(s, sep, start, i) ==
    IF i + Len(sep) - 1 > Len(s) THEN << SubSeq(s, start, Len(s)) >>
    ELSE IF SubSeq(s, i, i + Len(sep) - 1) = sep
         THEN << SubSeq(s, start, i - 1) >> \o SplitAt(s, sep, i + Len(sep), i + Len(sep))
         ELSE SplitAt(s, sep, start, i + 1)
Split(s, sep) == SplitAt(s, sep, 1, 1)

\* s.rstrip(chars)
RECURSIVE RStripChars(_, _)
RStripChars(s, chars) ==
    IF Len(s) > 0 /\ Contains(CharAt(s, Len(s)), chars)
    THEN RStripChars(SubSeq(s, 1, Len(s) - 1), chars)
    ELSE s

\* str.title(): a cased character is upper case after an uncased one, lower case after a cased one
RECURSIVE TitleFrom(_, _)
TitleFrom(s, prevCased) ==
    IF Len(s) = 0 THEN ""
    ELSE LET c == CharAt(s, 1)
         IN  (IF prevCased THEN LowerChar(c) ELSE UpperChar(c))
                 \o TitleFrom(SubSeq(s, 2, Len(s)), IsCased(c))
Title(s) == TitleFrom(s, FALSE)

\* ", ".join(xs)
RECURSIVE Join(_)
Join(xs) ==
    IF Len(xs) = 0 THEN ""
    ELSE IF Len(xs) = 1 THEN xs[1]
    ELSE xs[1] \o ", " \o Join(Tail(xs))

\* index of the first TRUE of a sequence of booleans, 0 if none: the entry at which a
\* loop over a dict (in insertion order) or a list returns
FirstTrue(hits) ==
    IF \E i \in 1..Len(hits) : hits[i]
    THEN CHOOSE i \in 1..Len(hits) : hits[i] /\ \A j \in 1..(i - 1) : ~hits[j]
    ELSE 0

(***************************************************************************)
(* tools/geocode_location.py: the tables and the helper functions.         *)
(***************************************************************************)
specifics ==
    << "bus stand", "railway", "station", "fort", "hospital",
       "airport", "hotel", "mall", "junction", "road", "street",
       "temple", "church", "mosque", "beach", "park", "market" >>

broad_locations ==
    << "colombo", "gampaha", "kandy", "galle", "negombo", "kurunegala",
       "anuradhapura", "jaffna", "trincomalee", "batticaloa", "matara",
       "ratnapura", "badulla", "nuwara eliya", "kalutara", "hambantota" >>

\* _is_location_too_broad that takes one word only for a bare city name
BroadOneWordOnly(location) ==
    LET location_lower == Strip(Lower(location))
    IN  IF \E i \in 1..Len(specifics) : Contains(specifics[i], location_lower)
        THEN FALSE
        ELSE /\ WordCount(location_lower) <= 1
             /\ \E i \in 1..Len(broad_locations) : location_lower = broad_locations[i]

_is_location_too_broad(location) ==
    LET location_lower == Strip(Lower(location))
    IN  IF \E i \in 1..Len(specifics) : Contains(specifics[i], location_lower)
        THEN FALSE
        ELSE /\ WordCount(location_lower) <= 2
             /\ \E i \in 1..Len(broad_locations) : location_lower = broad_locations[i]

alternatives_map ==
    << << "colombo", << "Colombo Fort (Railway Station)", "Pettah (Market Area)",
                        "Bambalapitiya", "Kollupitiya",
                        "Colombo 7 (Cinnamon Gardens)", "Dehiwala" >> >>,
       << "gampaha", << "Gampaha Bus Stand", "Gampaha Railway Station",
                        "Gampaha Town Center", "Gampaha Hospital" >> >>,
       << "kandy",   << "Kandy City Center", "Kandy Railway Station", "Kandy Bus Stand",
                        "Temple of the Tooth", "Peradeniya" >> >>,
       << "negombo", << "Negombo Bus Stand", "Negombo Beach", "Negombo City Center" >> >>,
       << "galle",   << "Galle Fort", "Galle Bus Stand", "Galle Railway Station" >> >> >>

\* _get_specific_alternatives without the default suggestions
AlternativesWithoutDefault(location) ==
    LET location_lower == Strip(Lower(location))
        Hit(e) == location_lower = e[1] \/ StartsWith(location_lower, e[1])
        i == FirstTrue([ k \in 1..Len(alternatives_map) |-> Hit(alternatives_map[k]) ])
    IN  IF i > 0 THEN alternatives_map[i][2] ELSE << >>

_get_specific_alternatives(location) ==
    LET location_lower == Strip(Lower(location))
        Hit(e) == location_lower = e[1] \/ StartsWith(location_lower, e[1])
        i == FirstTrue([ k \in 1..Len(alternatives_map) |-> Hit(alternatives_map[k]) ])
    IN  IF i > 0 THEN alternatives_map[i][2]
        ELSE << location \o " Bus Stand", location \o " Railway Station",
                location \o " Town Center" >>

fallback_map ==
    << << "wso2", "105 Bauddhaloka Mawatha, Colombo 4, Sri Lanka" >>,
       << "colombo 1", "Colombo 01, Fort, Sri Lanka" >>,
       << "colombo 2", "Colombo 02, Slave Island, Sri Lanka" >>,
       << "colombo 3", "Colombo 03, Kollupitiya, Sri Lanka" >>,
       << "colombo 4", "Colombo 04, Bambalapitiya, Sri Lanka" >>,
       << "colombo 5", "Colombo 05, Narahenpita, Sri Lanka" >>,
       << "colombo 6", "Colombo 06, Wellawatta, Sri Lanka" >>,
       << "colombo 7", "Colombo 07, Cinnamon Gardens, Sri Lanka" >>,
       << "colombo fort", "Fort, Colombo, Sri Lanka" >>,
       << "pettah", "Pettah, Colombo, Sri Lanka" >>,
       << "bambalapitiya", "Bambalapitiya, Colombo, Sri Lanka" >>,
       << "wellawatta", "Wellawatta, Colombo, Sri Lanka" >>,
       << "mount lavinia", "Mount Lavinia, Dehiwala-Mount Lavinia, Sri Lanka" >> >>

major_cities ==
    << "colombo", "gampaha", "kandy", "galle", "negombo", "kurunegala",
       "anuradhapura", "jaffna", "matara", "ratnapura", "badulla" >>

_get_fallback_location(location) ==
    LET location_lower == Lower(location)
        Hit(e) == Contains(e[1], location_lower)
        i == FirstTrue([ k \in 1..Len(fallback_map) |-> Hit(fallback_map[k]) ])
        HitCity(c) == Contains(c, location_lower)
        j == FirstTrue([ k \in 1..Len(major_cities) |-> HitCity(major_cities[k]) ])
    IN  IF i > 0 THEN fallback_map[i][2]
        ELSE IF j > 0 THEN Title(major_cities[j]) \o ", Sri Lanka"
        ELSE ""

enhancements ==
    << << "bia", "Bandaranaike International Airport, Katunayake, Sri Lanka" >>,
       << "katunayake airport", "Bandaranaike International Airport, Katunayake, Sri Lanka" >>,
       << "colombo fort", "Fort, Colombo, Sri Lanka" >>,
       << "fort", "Fort, Colombo 01, Sri Lanka" >>,
       << "galle face", "Galle Face, Colombo, Sri Lanka" >>,
       << "mount lavinia", "Mount Lavinia, Dehiwala-Mount Lavinia, Sri Lanka" >>,
       << "kandy city", "Kandy, Central Province, Sri Lanka" >>,
       << "peradeniya", "Peradeniya, Kandy, Sri Lanka" >>,
       << "nugegoda", "Nugegoda, Colombo, Sri Lanka" >>,
       << "maharagama", "Maharagama, Colombo, Sri Lanka" >>,
       << "negombo", "Negombo, Western Province, Sri Lanka" >>,
       << "galle", "Galle, Southern Province, Sri Lanka" >>,
       << "matara", "Matara, Southern Province, Sri Lanka" >>,
       << "jaffna", "Jaffna, Northern Province, Sri Lanka" >>,
       << "anuradhapura", "Anuradhapura, North Central Province, Sri Lanka" >>,
       << "polonnaruwa", "Polonnaruwa, North Central Province, Sri Lanka" >>,
       << "trincomalee", "Trincomalee, Eastern Province, Sri Lanka" >>,
       << "batticaloa", "Batticaloa, Eastern Province, Sri Lanka" >>,
       << "kurunegala", "Kurunegala, North Western Province, Sri Lanka" >>,
       << "ratnapura", "Ratnapura, Sabaragamuwa Province, Sri Lanka" >>,
       << "badulla", "Badulla, Uva Province, Sri Lanka" >>,
       << "nuwara eliya", "Nuwara Eliya, Central Province, Sri Lanka" >>,
       << "ella", "Ella, Badulla, Sri Lanka" >>,
       << "sigiriya", "Sigiriya, Matale, Sri Lanka" >>,
       << "dambulla", "Dambulla, Matale, Sri Lanka" >>,
       << "wso2", "105 Bauddhaloka Mawatha, Colombo 4, Sri Lanka" >>,
       << "gampaha bus stand", "Gampaha Bus Stand, Gampaha, Sri Lanka" >>,
       << "gampaha railway station", "Gampaha Railway Station, Gampaha, Sri Lanka" >>,
       << "gampaha station", "Gampaha Railway Station, Gampaha, Sri Lanka" >>,
       << "colombo fort station", "Colombo Fort Railway Station, Sri Lanka" >>,
       << "fort station", "Colombo Fort Railway Station, Sri Lanka" >>,
       << "kandy bus stand", "Kandy Bus Stand, Kandy, Sri Lanka" >>,
       << "kandy railway station", "Kandy Railway Station, Sri Lanka" >>,
       << "pettah bus stand", "Pettah Bus Stand, Colombo, Sri Lanka" >> >>

_enhance_sri_lankan_location(location) ==
    LET location_lower == Strip(Lower(location))
        Hit(e) == location_lower = e[1] \/ Contains(e[1], location_lower)
        i == FirstTrue([ k \in 1..Len(enhancements) |-> Hit(enhancements[k]) ])
        busCity == Strip(Replace(location_lower, " bus stand", ""))
        railCity == Strip(Replace(Replace(location_lower, " railway station", ""), " station", ""))
    IN  IF i > 0 THEN enhancements[i][2]
        ELSE IF Contains("bus stand", location_lower) /\ ~Contains(", ", location)
                /\ busCity # ""
        THEN Title(busCity) \o " Bus Stand, " \o Title(busCity) \o ", Sri Lanka"
        ELSE IF Contains("railway station", location_lower) /\ ~Contains(", ", location)
                /\ railCity # ""
        THEN Title(railCity) \o " Railway Station, " \o Title(railCity) \o ", Sri Lanka"
        ELSE IF WordCount(location) <= 2
                /\ (Contains("hotel", location_lower) \/ Contains("land of the kings", location_lower))
                /\ Contains("gampaha", location_lower)
        THEN "Gampaha, Western Province, Sri Lanka"
        ELSE IF WordCount(location) <= 2
                /\ (Contains("hotel", location_lower) \/ Contains("land of the kings", location_lower))
                /\ Contains("colombo", location_lower)
        THEN "Colombo, Western Province, Sri Lanka"
        ELSE IF WordCount(location) <= 2
                /\ (Contains("hotel", location_lower) \/ Contains("land of the kings", location_lower))
                /\ Contains("kandy", location_lower)
        THEN "Kandy, Central Province, Sri Lanka"
        ELSE IF ~Contains("sri lanka", location_lower)
        THEN location \o ", Sri Lanka"
        ELSE location

(***************************************************************************)
(* The geocoding service (Nominatim) as geocode_location sees it: an HTTP  *)
(* response with a status and, for 200, a JSON list of candidates, or an   *)
(* exception raised by requests.get / response.json().                     *)
(***************************************************************************)
Places ==
    { [lat |-> "6", lon |-> "80", display_name |-> "Galle, Southern Province, Sri Lanka"],
      [lat |-> "8", lon |-> "80", display_name |-> "Anuradhapura, North Central Province, Sri Lanka"] }

RECURSIVE SeqsUpTo(_, _)
SeqsUpTo(S, n) ==
    IF n = 0 THEN { << >> }
    ELSE LET shorter == SeqsUpTo(S, n - 1)
         IN  shorter \cup { Append(q, x) : q \in { r \in shorter : Len(r) = n - 1 }, x \in S }

FailureStatuses == { 429, 503 }
TransportErrors == { "Read timed out.", "Connection refused" }

HttpResponse(status, data) == [kind |-> "http", status |-> status, data |-> data, message |-> ""]
RaisedError(message) == [kind |-> "exception", status |-> 0, data |-> << >>, message |-> message]

GeoResponses ==
    { HttpResponse(200, d) : d \in SeqsUpTo(Places, MaxResults) }
        \cup { HttpResponse(c, << >>) : c \in FailureStatuses }
        \cup { RaisedError(m) : m \in TransportErrors }

\* float(result.get('lat', 0)) on the decimal text the service sends
FloatOf(s) == CHOOSE n \in -180..180 : ToString(n) = s

(***************************************************************************)
(* The dicts geocode_location returns.  "keys" is the set of keys of the   *)
(* dict; a field whose key is absent holds an empty value.                 *)
(***************************************************************************)
EmptyDict ==
    [ keys |-> {}, success |-> FALSE, ambiguous |-> FALSE, location_name |-> "",
      coordinates |-> << >>, full_address |-> "", display_name |-> "", confidence |-> "",
      alternatives |-> << >>, message |-> "", suggestion |-> "", error |-> "", source |-> "" ]

AmbiguousDict(location_name, alternatives) ==
    [ EmptyDict EXCEPT
        !.keys = { "success", "ambiguous", "location_name", "alternatives", "message", "suggestion" },
        !.success = FALSE,
        !.ambiguous = TRUE,
        !.location_name = location_name,
        !.alternatives = alternatives,
        !.message = "'" \o location_name \o "' is too broad. Please specify a more exact location.",
        !.suggestion = "Choose from: " \o Join(alternatives) ]

FoundDict(location_name, lat, lon, display_name) ==
    [ EmptyDict EXCEPT
        !.keys = { "success", "location_name", "coordinates", "full_address", "display_name",
                   "confidence", "ambiguous", "source" },
        !.success = TRUE,
        !.location_name = location_name,
        !.coordinates = << lat, lon >>,
        !.full_address = display_name,
        !.display_name = display_name,
        !.confidence = "high",
        !.ambiguous = FALSE,
        !.source = "OpenStreetMap Nominatim" ]

NotFoundError == "Location not found in OpenStreetMap"

NotFoundDict(location_name) ==
    [ EmptyDict EXCEPT
        !.keys = { "success", "location_name", "error", "suggestion" },
        !.location_name = location_name,
        !.error = NotFoundError,
        !.suggestion = "Please provide a nearby landmark, address, or well-known location (e.g., 'Colombo 4' instead of specific office names)" ]

\* StatusDict that reports a failed request as a place that was not found
StatusAsNotFound(location_name, status) ==
    [ EmptyDict EXCEPT
        !.keys = { "success", "location_name", "error", "suggestion" },
        !.location_name = location_name,
        !.error = NotFoundError,
        !.suggestion = "Service temporarily unavailable. Using approximate location." ]

StatusDict(location_name, status) ==
    [ EmptyDict EXCEPT
        !.keys = { "success", "location_name", "error", "suggestion" },
        !.location_name = location_name,
        !.error = "Geocoding API returned status " \o ToString(status),
        !.suggestion = "Service temporarily unavailable. Using approximate location." ]

ExceptionDict(location_name, message) ==
    [ EmptyDict EXCEPT
        !.keys = { "success", "location_name", "error", "suggestion" },
        !.location_name = location_name,
        !.error = message,
        !.suggestion = "Could not geocode location. Using city name for calculations." ]

(***************************************************************************)
(* tools/calculate_route.py.                                               *)
(*                                                                         *)
(* Numbers: a coordinate is a whole, even number of degrees; the floats of *)
(* the haversine formula are fixed-point numbers of 4 decimals (Scale),    *)
(* each product rounded to the nearest as a float product is; distance_km  *)
(* is held in hundredths of a kilometre and duration_minutes in tenths of  *)
(* a minute, the precision round(.., 2) and round(.., 1) leave.            *)
(***************************************************************************)
Scale == 10000

\* round(n / d) for d > 0; none of the quotients of the model is a tie
RoundDiv(n, d) == (2 * n + d) \div (2 * d)

Abs(n) == IF n < 0 THEN -n ELSE n

\* math.sin of 0..90 degrees, times Scale
SinTable ==
    <<
           0,   175,   349,   523,   698,   872,  1045,  1219,  1392,  1564,
        1736,  1908,  2079,  2250,  2419,  2588,  2756,  2924,  3090,  3256,
        3420,  3584,  3746,  3907,  4067,  4226,  4384,  4540,  4695,  4848,
        5000,  5150,  5299,  5446,  5592,  5736,  5878,  6018,  6157,  6293,
        6428,  6561,  6691,  6820,  6947,  7071,  7193,  7314,  7431,  7547,
        7660,  7771,  7880,  7986,  8090,  8192,  8290,  8387,  8480,  8572,
        8660,  8746,  8829,  8910,  8988,  9063,  9135,  9205,  9272,  9336,
        9397,  9455,  9511,  9563,  9613,  9659,  9703,  9744,  9781,  9816,
        9848,  9877,  9903,  9925,  9945,  9962,  9976,  9986,  9994,  9998,
       10000 >>

\* math.sin(math.radians(d)) * Scale
RECURSIVE Sin(_)
Sin(d) ==
    LET m == d % 360
    IN  IF m <= 90 THEN SinTable[m + 1]
        ELSE IF m <= 180 THEN SinTable[180 - m + 1]
        ELSE -Sin(m - 180)

\* math.cos(math.radians(d)) * Scale
Cos(d) == Sin(d + 90)

\* the largest r in lo..hi with r * r <= n
RECURSIVE SqrtBetween(_, _, _)
SqrtBetween(n, lo, hi) ==
    IF lo = hi THEN lo
    ELSE LET mid == (lo + hi + 1) \div 2
         IN  IF mid * mid <= n THEN SqrtBetween(n, mid, hi) ELSE SqrtBetween(n, lo, mid - 1)

\* math.sqrt(x / Scale) * Scale, for 0 <= x <= Scale
Sqrt(x) == SqrtBetween(x * Scale, 0, Scale)

\* the distance of t degrees from the angle of the point (x, y)
Offset(y, x, t) == Abs(y * Cos(t) - x * Sin(t))

\* the whole degree in t..90 nearest to the angle of (x, y), which is not below t
RECURSIVE NearestDegree(_, _, _)
NearestDegree(y, x, t) ==
    IF t = 90 \/ Offset(y, x, t + 1) >= Offset(y, x, t) THEN t
    ELSE NearestDegree(y, x, t + 1)

\* math.atan2(y, x) for y, x >= 0, to the nearest whole degree
Atan2(y, x) == NearestDegree(y, x, 0)

\* R * radians(1), the kilometres of one degree of arc with R = 6371.0, in 1/10000 km
KmPerDegree == 1111949

\* the dicts calculate_route returns; "raised" is the message of an exception
\* that leaves the function instead of a dict
EmptyRoute ==
    [ keys |-> {}, success |-> FALSE, distance_km |-> 0, distance_meters |-> 0,
      duration_minutes |-> 0, duration_seconds |-> 0, source |-> "", note |-> "",
      raised |-> "" ]

RouteKeys ==
    { "success", "distance_km", "distance_meters", "duration_minutes", "duration_seconds",
      "origin", "destination", "route_summary", "source" }

\* the assumed average speed, km/h
FallbackSpeed == 50

\* the formula with the cosine of the origin latitude for both points
HaversineOnOriginParallel(lat1, lon1, lat2, lon2) ==
    LET dlat == lat2 - lat1
        dlon == lon2 - lon1
        a == RoundDiv(Sin(dlat \div 2) * Sin(dlat \div 2), Scale)
               + RoundDiv(RoundDiv(Cos(lat1) * Cos(lat1), Scale)
                            * RoundDiv(Sin(dlon \div 2) * Sin(dlon \div 2), Scale), Scale)
    IN  IF a < 0 \/ Scale - a < 0
        THEN \* math.sqrt of a negative number
             [ EmptyRoute EXCEPT !.raised = "math domain error" ]
        ELSE LET c == 2 * Atan2(Sqrt(a), Sqrt(Scale - a))
                 distance_km == RoundDiv(c * KmPerDegree, 100)
                 duration_minutes == RoundDiv(distance_km * 60, FallbackSpeed * 10)
             IN  [ EmptyRoute EXCEPT
                     !.keys = RouteKeys \cup { "note" },
                     !.success = TRUE,
                     !.distance_km = distance_km,
                     !.distance_meters = distance_km * 10,
                     !.duration_minutes = duration_minutes,
                     !.duration_seconds = duration_minutes * 6,
                     !.source = "Haversine formula (fallback)",
                     !.note = "Routing service unavailable. Using straight-line distance estimate." ]

\* calculate_route.py lines 114-161
_calculate_haversine_fallback(lat1, lon1, lat2, lon2) ==
    LET dlat == lat2 - lat1
        dlon == lon2 - lon1
        a == RoundDiv(Sin(dlat \div 2) * Sin(dlat \div 2), Scale)
               + RoundDiv(RoundDiv(Cos(lat1) * Cos(lat2), Scale)
                            * RoundDiv(Sin(dlon \div 2) * Sin(dlon \div 2), Scale), Scale)
    IN  IF a < 0 \/ Scale - a < 0
        THEN \* math.sqrt of a negative number
             [ EmptyRoute EXCEPT !.raised = "math domain error" ]
        ELSE LET c == 2 * Atan2(Sqrt(a), Sqrt(Scale - a))
                 distance_km == RoundDiv(c * KmPerDegree, 100)
                 duration_minutes == RoundDiv(distance_km * 60, FallbackSpeed * 10)
             IN  [ EmptyRoute EXCEPT
                     !.keys = RouteKeys \cup { "note" },
                     !.success = TRUE,
                     !.distance_km = distance_km,
                     !.distance_meters = distance_km * 10,
                     !.duration_minutes = duration_minutes,
                     !.duration_seconds = duration_minutes * 6,
                     !.source = "Haversine formula (fallback)",
                     !.note = "Routing service unavailable. Using straight-line distance estimate." ]

\* the dict of the branch that takes the first route of the service
RoutedDict(route) ==
    [ EmptyRoute EXCEPT
        !.keys = RouteKeys,
        !.success = TRUE,
        !.distance_km = RoundDiv(route.distance, 10),
        !.distance_meters = route.distance,
        !.duration_minutes = RoundDiv(route.duration, 6),
        !.duration_seconds = route.duration,
        !.source = "OSRM (OpenStreetMap)" ]

(***************************************************************************)
(* The routing service (OSRM): a status and, for 200, a JSON object with a *)
(* code and a list of routes (metres, seconds), or an exception.           *)
(***************************************************************************)
Routes ==
    { [distance |-> 0, duration |-> 0],
      [distance |-> 116540, duration |-> 7260],
      [distance |-> 3210, duration |-> 432] }

RouteHttp(status, code, hasRoutes, routes) ==
    [ kind |-> "http", status |-> status, code |-> code, hasRoutes |-> hasRoutes,
      routes |-> routes, message |-> "" ]

RouteResponses ==
    { RouteHttp(200, "Ok", TRUE, << r >>) : r \in Routes }
        \cup { RouteHttp(200, "Ok", TRUE, << >>), RouteHttp(200, "NoRoute", TRUE, << >>),
               RouteHttp(200, "InvalidQuery", FALSE, << >>),
               RouteHttp(400, "InvalidValue", FALSE, << >>),
               RouteHttp(429, "", FALSE, << >>), RouteHttp(503, "", FALSE, << >>) }
        \cup { [ kind |-> "exception", status |-> 0, code |-> "", hasRoutes |-> FALSE,
                 routes |-> << >>, message |-> m ] : m \in TransportErrors }

\* the coordinates calculate_route is called with, in degrees
Latitudes == { -8, 6, 8, 100 }
Longitudes == { 0, 80, 180, 200 }

(***************************************************************************)
(* State.                                                                  *)
(*   g*  one geocode_location call: where it stands, the text it was       *)
(*       called with, the location_name of the running frame, the depth of *)
(*       the recursion, the lookups sent and the responses received so     *)
(*       far, and the dict it returned.                                    *)
(*   r*  one calculate_route call: where it stands, its four coordinates,  *)
(*       the response of the routing service, the dict it returned and the *)
(*       message of the exception it raised to its caller ("" if none).    *)
(*   clock, tPc, tWake, requests: the threads that run geocode_location    *)
(*       in one process, the time in milliseconds, the instant each        *)
(*       thread's time.sleep(1) ends and the instants at which requests    *)
(*       were sent to the geocoding service.                               *)
(*   f*  one estimate_trip_cost call: whether it returned, its arguments   *)
(*       and the dict it returned.                                         *)
(*   v*  one filter_vehicles_by_constraints call, likewise.                *)
(*   session, chatLog, auth: the trip fields of st.session_state of the    *)
(*       chat page, what the handling of the last message did, and the     *)
(*       user_id of the logged-in user ("" when nobody is logged in).      *)
(*   db, calendar, dbLast: the tables of vehicles.db, the events of the    *)
(*       primary calendar and the last tool call with its outcome.         *)
(*   q*  one recommend_best_vehicle call: whether it returned, its         *)
(*       arguments and the dict it returned.                               *)
(*   calls: the book_vehicle calls that run at the same time, each with    *)
(*       its position, its arguments, its locals and the dict it returned. *)
(***************************************************************************)
VARIABLES gPc, gInput, gLoc, gDepth, gLookups, gResps, gResult,
          rPc, rArgs, rResp, rResult, rRaised,
          clock, tPc, tWake, requests,
          fPc, fArgs, fResult,
          vPc, vArgs, vResult,
          session, chatLog, auth,
          db, calendar, dbLast,
          qPc, qArgs, qResult,
          calls

geoVars == << gPc, gInput, gLoc, gDepth, gLookups, gResps, gResult >>
routeVars == << rPc, rArgs, rResp, rResult, rRaised >>
rateVars == << clock, tPc, tWake, requests >>
fareVars == << fPc, fArgs, fResult >>
filterVars == << vPc, vArgs, vResult >>
chatVars == << session, chatLog, auth >>
dbVars == << db, calendar, dbLast >>
recVars == << qPc, qArgs, qResult >>
bookVars == << calls >>

vars ==
    << geoVars, routeVars, rateVars, fareVars, filterVars, chatVars, dbVars, recVars, bookVars >>

\* the texts geocode_location is called with
Texts ==
    { "", "   ", "Colombo", " colombo ", "Jaffna", "Nuwara Eliya", "Kandy",
      "Colombo Fort", "Gampaha Bus Stand", "Matale Bus Stand", "Kandy Hotel",
      "WSO2 Colombo", "Colombo 4 Office", "Xyz Office Kandy", "Unknown Place",
      "colombo fort station", "Temple Road, Sri Lanka", "JAFFNA " }

\* LoggerDefined with a logger bound in the module, as app.py and booking_agent.py bind one
LoggerBound == TRUE

\* the module imports requests, time and strands.tool only: the name logger,
\* used on the zero-results path, is bound nowhere
LoggerDefined == FALSE

\* Lookup with the condition of the limit inverted
LookupLimitInverted(location_name) ==
    [ name  |-> location_name,
      q     |-> _enhance_sri_lankan_location(location_name),
      limit |-> IF _is_location_too_broad(location_name) THEN 1 ELSE 5 ]

\* lines 37-57 of one frame: classify, enhance, build the request and send it
Lookup(location_name) ==
    [ name  |-> location_name,
      q     |-> _enhance_sri_lankan_location(location_name),
      limit |-> IF _is_location_too_broad(location_name) THEN 5 ELSE 1 ]

GeoInit ==
    /\ gPc = "idle"
    /\ gInput = ""
    /\ gLoc = ""
    /\ gDepth = 0
    /\ gLookups = << >>
    /\ gResps = << >>
    /\ gResult = EmptyDict

\* geocode_location(text) is called and runs up to requests.get
GeoCall(text) ==
    /\ gPc \in { "idle", "done" }
    /\ gPc' = "waiting"
    /\ gInput' = text
    /\ gLoc' = text
    /\ gDepth' = 1
    /\ gLookups' = << Lookup(text) >>
    /\ gResps' = << >>
    /\ gResult' = EmptyDict
    /\ UNCHANGED << routeVars, rateVars, fareVars, filterVars, chatVars, dbVars, recVars, bookVars >>

Return(result) ==
    /\ gPc' = "done"
    /\ gResult' = result
    /\ UNCHANGED << gLoc, gDepth, gLookups >>

\* return geocode_location(fallback_location): a new frame, whose dict is returned unchanged
Recurse(fallback_location) ==
    IF gDepth >= RecursionLimit
    THEN Return(ExceptionDict(gLoc, "maximum recursion depth exceeded"))
    ELSE /\ gPc' = "waiting"
         /\ gLoc' = fallback_location
         /\ gDepth' = gDepth + 1
         /\ gLookups' = Append(gLookups, Lookup(fallback_location))
         /\ gResult' = EmptyDict

\* requests.get returns or raises, and the frame runs to its return
GeoRespond(resp) ==
    /\ gPc = "waiting"
    /\ gResps' = Append(gResps, resp)
    /\ gInput' = gInput
    /\ IF resp.kind = "exception"
       THEN Return(ExceptionDict(gLoc, resp.message))
       ELSE IF resp.status # 200
       THEN Return(StatusDict(gLoc, resp.status))
       ELSE IF Len(resp.data) > 0
       THEN IF _is_location_too_broad(gLoc) /\ Len(resp.data) > 1
            THEN Return(AmbiguousDict(gLoc, _get_specific_alternatives(gLoc)))
            ELSE Return(FoundDict(gLoc, FloatOf(resp.data[1].lat), FloatOf(resp.data[1].lon),
                                  resp.data[1].display_name))
       ELSE IF ~LoggerDefined
       THEN Return(ExceptionDict(gLoc, "name 'logger' is not defined"))
       ELSE IF _get_fallback_location(gLoc) # ""
       THEN Recurse(_get_fallback_location(gLoc))
       ELSE Return(NotFoundDict(gLoc))
    /\ UNCHANGED << routeVars, rateVars, fareVars, filterVars, chatVars, dbVars, recVars, bookVars >>

(***************************************************************************)
(* calculate_route.                                                        *)
(***************************************************************************)
RouteInit ==
    /\ rPc = "idle"
    /\ rArgs = << 0, 0, 0, 0 >>
    /\ rResp = RouteHttp(0, "", FALSE, << >>)
    /\ rResult = EmptyRoute
    /\ rRaised = ""

\* calculate_route(origin_lat, origin_lon, destination_lat, destination_lon) is
\* called and runs up to requests.get
RouteCall(origin_lat, origin_lon, destination_lat, destination_lon) ==
    /\ rPc \in { "idle", "done" }
    /\ rPc' = "waiting"
    /\ rArgs' = << origin_lat, origin_lon, destination_lat, destination_lon >>
    /\ rResp' = RouteHttp(0, "", FALSE, << >>)
    /\ rResult' = EmptyRoute
    /\ rRaised' = ""
    /\ UNCHANGED << geoVars, rateVars, fareVars, filterVars, chatVars, dbVars, recVars, bookVars >>

\* the dict calculate_route returns for a response, or the exception that leaves it:
\* an exception of the fallback inside the try block is caught by the except
\* clause, which calls the fallback again, outside any try block
RouteOutcome(args, resp) ==
    IF /\ resp.kind = "http"
       /\ resp.status = 200
       /\ resp.code = "Ok" /\ resp.hasRoutes /\ Len(resp.routes) > 0
    THEN RoutedDict(resp.routes[1])
    ELSE _calculate_haversine_fallback(args[1], args[2], args[3], args[4])

\* requests.get returns or raises, and calculate_route runs to its end
RouteRespond(resp) ==
    /\ rPc = "waiting"
    /\ rPc' = "done"
    /\ rResp' = resp
    /\ rArgs' = rArgs
    /\ LET out == RouteOutcome(rArgs, resp)
       IN  /\ rRaised' = out.raised
           /\ rResult' = IF out.raised = "" THEN out ELSE EmptyRoute
    /\ UNCHANGED << geoVars, rateVars, fareVars, filterVars, chatVars, dbVars, recVars, bookVars >>

(***************************************************************************)
(* The timing of geocode_location in the threads of one process.           *)
(***************************************************************************)
Threads == { 1, 2 }

\* time.sleep(1), in milliseconds
SleepMs == 1000

\* the step of the clock, in milliseconds
TickMs == 500

RateInit ==
    /\ clock = 0
    /\ tPc = [ t \in Threads |-> "idle" ]
    /\ tWake = [ t \in Threads |-> 0 ]
    /\ requests = << >>

\* thread t calls geocode_location and reaches time.sleep(1)
RateCall(t) ==
    /\ tPc[t] = "idle"
    /\ clock + SleepMs <= MaxClock
    /\ tPc' = [ tPc EXCEPT ![t] = "sleeping" ]
    /\ tWake' = [ tWake EXCEPT ![t] = clock + SleepMs ]
    /\ UNCHANGED << clock, requests, geoVars, routeVars, fareVars, filterVars, chatVars, dbVars, recVars, bookVars >>

\* the sleep of thread t is over and the thread sends its request
RateRequest(t) ==
    /\ tPc[t] = "sleeping"
    /\ clock >= tWake[t]
    /\ tPc' = [ tPc EXCEPT ![t] = "waiting" ]
    /\ requests' = Append(requests, [ thread |-> t, at |-> clock ])
    /\ UNCHANGED << clock, tWake, geoVars, routeVars, fareVars, filterVars, chatVars, dbVars, recVars, bookVars >>

\* the response arrives and geocode_location returns in thread t
RateReturn(t) ==
    /\ tPc[t] = "waiting"
    /\ tPc' = [ tPc EXCEPT ![t] = "idle" ]
    /\ UNCHANGED << clock, tWake, requests, geoVars, routeVars, fareVars, filterVars, chatVars, dbVars, recVars, bookVars >>

\* time passes
Tick ==
    /\ clock + TickMs <= MaxClock
    /\ clock' = clock + TickMs
    /\ UNCHANGED << tPc, tWake, requests, geoVars, routeVars, fareVars, filterVars, chatVars, dbVars, recVars, bookVars >>

(***************************************************************************)
(* estimate_trip_cost.  distance_km is in 1/10000 km, duration_minutes in  *)
(* whole minutes and surge_multiplier in tenths; the amounts inside the    *)
(* function are in 1/10000 LKR (Scale), the rounded amounts of the         *)
(* returned dict are in 1/100 LKR.                                         *)
(***************************************************************************)
\* the starting fare, LKR
base_rate == 250

\* vehicle_multipliers with a van charged 110 per km, less than an SUV
MultipliersVanBelowSuv ==
    [ economy  |-> [per_km |-> 80,  per_min |-> 15, base_multiplier |-> 100, comfort |-> "Basic"],
      standard |-> [per_km |-> 100, per_min |-> 20, base_multiplier |-> 100, comfort |-> "Standard"],
      luxury   |-> [per_km |-> 150, per_min |-> 30, base_multiplier |-> 150, comfort |-> "Premium"],
      premium  |-> [per_km |-> 140, per_min |-> 28, base_multiplier |-> 140, comfort |-> "Premium"],
      suv      |-> [per_km |-> 120, per_min |-> 25, base_multiplier |-> 120, comfort |-> "Comfort"],
      van      |-> [per_km |-> 110, per_min |-> 26, base_multiplier |-> 130, comfort |-> "Spacious"],
      minivan  |-> [per_km |-> 125, per_min |-> 25, base_multiplier |-> 125, comfort |-> "Spacious"],
      sedan    |-> [per_km |-> 90,  per_min |-> 18, base_multiplier |-> 100, comfort |-> "Standard"] ]

\* per_km and per_min in LKR, base_multiplier in hundredths
vehicle_multipliers ==
    [ economy  |-> [per_km |-> 80,  per_min |-> 15, base_multiplier |-> 100, comfort |-> "Basic"],
      standard |-> [per_km |-> 100, per_min |-> 20, base_multiplier |-> 100, comfort |-> "Standard"],
      luxury   |-> [per_km |-> 150, per_min |-> 30, base_multiplier |-> 150, comfort |-> "Premium"],
      premium  |-> [per_km |-> 140, per_min |-> 28, base_multiplier |-> 140, comfort |-> "Premium"],
      suv      |-> [per_km |-> 120, per_min |-> 25, base_multiplier |-> 120, comfort |-> "Comfort"],
      van      |-> [per_km |-> 130, per_min |-> 26, base_multiplier |-> 130, comfort |-> "Spacious"],
      minivan  |-> [per_km |-> 125, per_min |-> 25, base_multiplier |-> 125, comfort |-> "Spacious"],
      sedan    |-> [per_km |-> 90,  per_min |-> 18, base_multiplier |-> 100, comfort |-> "Standard"] ]

\* Pricing that matches the label as it is written, without lower()
PricingCaseSensitive(vehicle_type) ==
    IF \/ Contains("luxury", vehicle_type) \/ Contains("premium", vehicle_type)
       \/ Contains("mercedes", vehicle_type) \/ Contains("bmw", vehicle_type)
    THEN vehicle_multipliers.luxury
    ELSE IF Contains("van", vehicle_type) THEN vehicle_multipliers.van
    ELSE IF Contains("suv", vehicle_type) THEN vehicle_multipliers.suv
    ELSE IF Contains("economy", vehicle_type) \/ Contains("budget", vehicle_type)
    THEN vehicle_multipliers.economy
    ELSE vehicle_multipliers.standard

\* lines 49-64: the pricing category of a vehicle type
Pricing(vehicle_type) ==
    LET vehicle_lower == Lower(vehicle_type)
    IN  IF \/ Contains("luxury", vehicle_lower) \/ Contains("premium", vehicle_lower)
           \/ Contains("mercedes", vehicle_lower) \/ Contains("bmw", vehicle_lower)
        THEN vehicle_multipliers.luxury
        ELSE IF Contains("van", vehicle_lower) THEN vehicle_multipliers.van
        ELSE IF Contains("suv", vehicle_lower) THEN vehicle_multipliers.suv
        ELSE IF Contains("economy", vehicle_lower) \/ Contains("budget", vehicle_lower)
        THEN vehicle_multipliers.economy
        ELSE vehicle_multipliers.standard

\* round(x, 2): x in 1/10000 LKR to the nearest 1/100 LKR, a tie to the even one
Round2(x) ==
    LET q == x \div 100
        r == x % 100
    IN  IF r < 50 THEN q
        ELSE IF r > 50 THEN q + 1
        ELSE IF q % 2 = 0 THEN q ELSE q + 1

\* final_cost taken from the subtotal already rounded for the breakdown
FinalOfRoundedSubtotal(subtotal, surge_multiplier) ==
    (Round2(subtotal) * 100 * surge_multiplier) \div 10

\* line 72
final_cost(subtotal, surge_multiplier) == (subtotal * surge_multiplier) \div 10

EmptyFare ==
    [ keys |-> {}, estimated_cost |-> 0, currency |-> "", vehicle_category |-> "",
      breakdown |-> [ base_fare |-> 0, distance_charge |-> 0, time_charge |-> 0,
                      subtotal |-> 0, surge_multiplier |-> 0, final_total |-> 0 ],
      pricing_note |-> "" ]

estimate_trip_cost(distance_km, duration_minutes, vehicle_type, surge_multiplier) ==
    LET pricing == Pricing(vehicle_type)
        adjusted_base == base_rate * pricing.base_multiplier * (Scale \div 100)
        distance_charge == distance_km * pricing.per_km
        time_charge == duration_minutes * pricing.per_min * Scale
        subtotal == adjusted_base + distance_charge + time_charge
        total == final_cost(subtotal, surge_multiplier)
    IN  [ keys |-> { "estimated_cost", "currency", "vehicle_category", "breakdown",
                     "pricing_note" },
          estimated_cost |-> Round2(total),
          currency |-> "LKR",
          vehicle_category |-> pricing.comfort,
          breakdown |-> [ base_fare |-> Round2(adjusted_base),
                          distance_charge |-> Round2(distance_charge),
                          time_charge |-> Round2(time_charge),
                          subtotal |-> Round2(subtotal),
                          surge_multiplier |-> surge_multiplier,
                          final_total |-> Round2(total) ],
          pricing_note |-> pricing.comfort \o " vehicle - LKR " \o ToString(pricing.per_km)
                             \o "/km + LKR " \o ToString(pricing.per_min) \o "/min" ]

\* the arguments estimate_trip_cost is called with; no amount they lead to is
\* half-way between two cents, where round() follows the binary float
FareDistances == { -10000, 0, 4, 12344, 30000 }
FareDurations == { -5, 0, 1, 12 }
SurgeMultipliers == { -10, 1, 5, 10, 15 }
VehicleTypes ==
    { "Economy", "Standard", "SUV", "Van", "Luxury", "Mercedes-Benz E-Class",
      "MERCEDES-BENZ E-CLASS", "mercedes-benz e-class", "Luxury Van", "SUV Minivan",
      "Budget suv", "Sedan" }

FareInit ==
    /\ fPc = "idle"
    /\ fArgs = [ distance_km |-> 0, duration_minutes |-> 0, vehicle_type |-> "",
                 surge_multiplier |-> 10 ]
    /\ fResult = EmptyFare

\* estimate_trip_cost(distance_km, duration_minutes, vehicle_type, surge_multiplier)
\* is called and returns
EstimateCall(distance_km, duration_minutes, vehicle_type, surge_multiplier) ==
    /\ fPc = "idle"
    /\ fPc' = "done"
    /\ fArgs' = [ distance_km |-> distance_km, duration_minutes |-> duration_minutes,
                  vehicle_type |-> vehicle_type, surge_multiplier |-> surge_multiplier ]
    /\ fResult' = estimate_trip_cost(distance_km, duration_minutes, vehicle_type,
                                     surge_multiplier)
    /\ UNCHANGED << geoVars, routeVars, rateVars, filterVars, chatVars, dbVars, recVars, bookVars >>

\* the caller has taken the dict; the function keeps nothing between calls
EstimateDone ==
    /\ fPc = "done"
    /\ fPc' = "idle"
    /\ fArgs' = [ distance_km |-> 0, duration_minutes |-> 0, vehicle_type |-> "",
                  surge_multiplier |-> 10 ]
    /\ fResult' = EmptyFare
    /\ UNCHANGED << geoVars, routeVars, rateVars, filterVars, chatVars, dbVars, recVars, bookVars >>

(***************************************************************************)
(* filter_vehicles_by_constraints.  A vehicle is a dict as                 *)
(* list_available_vehicles returns it (a row of the vehicles table, its    *)
(* features a comma-separated text) or as the agent writes it; "keys" is   *)
(* the set of its keys.  required_features is None or a list.              *)
(***************************************************************************)
FleetVehicles ==
    { [ keys |-> { "vehicle_id", "type", "capacity", "features" },
        vehicle_id |-> "SLV001", type |-> "sedan", capacity |-> 4, features |-> "AC,GPS" ],
      [ keys |-> { "vehicle_id", "type", "capacity", "features" },
        vehicle_id |-> "SLV002", type |-> "van", capacity |-> 8,
        features |-> "AC,wheelchair_accessible" ],
      [ keys |-> { "vehicle_id", "type", "capacity", "features" },
        vehicle_id |-> "SLV003", type |-> "suv", capacity |-> 6,
        features |-> "AC,GPS,child_seat" ],
      [ keys |-> { "vehicle_id", "type", "features" },
        vehicle_id |-> "SLV004", type |-> "van", capacity |-> 0,
        features |-> "wheelchair_accessible,GPS" ] }

\* the longest list of vehicles passed to the filter
MaxVehicles == 2

NoneFeatures == [ is_none |-> TRUE, list |-> << >> ]
FeatureList(list) == [ is_none |-> FALSE, list |-> list ]

RequiredFeatures ==
    { NoneFeatures, FeatureList(<< >>), FeatureList(<< "wheelchair_accessible" >>),
      FeatureList(<< "AC", "GPS" >>) }

MinCapacities == { 0, 1, 5, 9 }

\* v.get("capacity", 0)
GetCapacity(v) == IF "capacity" \in v.keys THEN v.capacity ELSE 0

\* lines 25-31: required_features is defaulted to [] and not read again
filter_vehicles_by_constraints(vehicles, min_capacity, required_features) ==
    SelectSeq(vehicles, LAMBDA v : GetCapacity(v) >= min_capacity)

FilterInit ==
    /\ vPc = "idle"
    /\ vArgs = [ vehicles |-> << >>, min_capacity |-> 0, required_features |-> NoneFeatures ]
    /\ vResult = << >>

\* filter_vehicles_by_constraints(vehicles, min_capacity, required_features) is
\* called and returns
FilterCall(vehicles, min_capacity, required_features) ==
    /\ vPc = "idle"
    /\ vPc' = "done"
    /\ vArgs' = [ vehicles |-> vehicles, min_capacity |-> min_capacity,
                  required_features |-> required_features ]
    /\ vResult' = filter_vehicles_by_constraints(vehicles, min_capacity, required_features)
    /\ UNCHANGED << geoVars, routeVars, rateVars, fareVars, chatVars, dbVars, recVars, bookVars >>

\* the caller has taken the list; the function keeps nothing between calls
FilterDone ==
    /\ vPc = "done"
    /\ vPc' = "idle"
    /\ vArgs' = [ vehicles |-> << >>, min_capacity |-> 0, required_features |-> NoneFeatures ]
    /\ vResult' = << >>
    /\ UNCHANGED << geoVars, routeVars, rateVars, fareVars, chatVars, dbVars, recVars, bookVars >>

(***************************************************************************)
(* The chat page (app.py).  st.session_state is the record session; None   *)
(* is written as the empty value of the field: "" for a location, << >>    *)
(* for a pair of coordinates, EmptyRoute for route_data.  The page tests   *)
(* these fields only for truth, and None and the empty value are both      *)
(* false.  messages is the length of the chat history.                     *)
(***************************************************************************)
\* the longest chat history
MaxMessages == 12

\* lines 182-185: pickup_text = pickup_text.replace(word, "").strip() for each filler word
RECURSIVE RemoveWords(_, _)
RemoveWords(text, words) ==
    IF Len(words) = 0 THEN text
    ELSE RemoveWords(Strip(Replace(text, Head(words), "")), Tail(words))

\* lines 187-190: dropoff_text = dropoff_text.split(word)[0].strip() for each word
RECURSIVE CutAtWords(_, _)
CutAtWords(text, words) ==
    IF Len(words) = 0 THEN text
    ELSE CutAtWords(Strip(Split(text, Head(words))[1]), Tail(words))

\* lines 155-191: the pickup and dropoff texts of a message, "" for None
ParseLocations(message) ==
    LET message_lower == Replace(Replace(Lower(message), " form ", " from "), " frm ", " from ")
        hasFrom == Contains("from", message_lower)
        hasTo == Contains("to", message_lower)
        between == Split(Split(message_lower, "from")[2], "to")
        found == IF hasFrom /\ hasTo
                 THEN IF Len(between) >= 2
                      THEN [ pickup_text |-> Strip(between[1]), dropoff_text |-> Strip(between[2]) ]
                      ELSE [ pickup_text |-> "", dropoff_text |-> "" ]
                 ELSE IF hasTo
                 THEN [ pickup_text |-> "", dropoff_text |-> Strip(Split(message_lower, "to")[2]) ]
                 ELSE [ pickup_text |-> "", dropoff_text |-> "" ]
    IN  [ pickup_text |->
            IF found.pickup_text # ""
            THEN RemoveWords(found.pickup_text,
                             << "i want", "i need", "need", "want", "go", "ride", "book", "a ride" >>)
            ELSE "",
          dropoff_text |->
            IF found.dropoff_text # ""
            THEN RStripChars(CutAtWords(found.dropoff_text,
                                        << "in a", "by", "with", "using", "?" >>), "?.,!")
            ELSE "" ]

\* geocode_location(location_name) when the service answers resp to every lookup
\* of the call: the dict it returns
RECURSIVE GeocodeWith(_, _, _)
GeocodeWith(location_name, resp, depth) ==
    IF resp.kind = "exception" THEN ExceptionDict(location_name, resp.message)
    ELSE IF resp.status # 200 THEN StatusDict(location_name, resp.status)
    ELSE IF Len(resp.data) > 0
    THEN IF _is_location_too_broad(location_name) /\ Len(resp.data) > 1
         THEN AmbiguousDict(location_name, _get_specific_alternatives(location_name))
         ELSE FoundDict(location_name, FloatOf(resp.data[1].lat), FloatOf(resp.data[1].lon),
                        resp.data[1].display_name)
    ELSE IF ~LoggerDefined
    THEN ExceptionDict(location_name, "name 'logger' is not defined")
    ELSE IF _get_fallback_location(location_name) # ""
    THEN IF depth >= RecursionLimit
         THEN ExceptionDict(location_name, "maximum recursion depth exceeded")
         ELSE GeocodeWith(_get_fallback_location(location_name), resp, depth + 1)
    ELSE NotFoundDict(location_name)

\* the messages the user types
Messages ==
    { "hello",
      "from colombo fort to kandy hotel",
      "I need a ride from Colombo to Jaffna",
      "Take me to Gampaha Bus Stand",
      "to kandy from colombo fort",
      "book frm Unknown Place to Nuwara Eliya by van?" }

\* lines 46-62: the trip fields of a new session
NewSession ==
    [ messages |-> 0, pickup_location |-> "", dropoff_location |-> "",
      pickup_coords |-> << >>, dropoff_coords |-> << >>, route_data |-> EmptyRoute,
      locations_confirmed |-> FALSE ]

\* what the handling of the last message did: the pickup and dropoff texts parsed
\* from it, the dicts geocode_location returned for them (EmptyDict if it was not
\* called), whether calculate_route was called, and the exception that ended the
\* script run
NoChatLog ==
    [ pickup_text |-> "", dropoff_text |-> "",
      pickup_geo |-> EmptyDict, dropoff_geo |-> EmptyDict, route_called |-> FALSE,
      raised |-> "" ]

\* the users with an account
Accounts == { "U1", "U2" }

\* lines 42-62: nobody is logged in and the trip fields are unset
ChatInit ==
    /\ session = NewSession
    /\ chatLog = NoChatLog
    /\ auth = ""

\* the reset of the trip that leaves route_data as it is
NewTripKeepingRoute(s) == [ NewSession EXCEPT !.route_data = s.route_data ]

\* lines 291-300: the "Start New Trip" button
NewTrip(s) == NewSession

\* lines 199-205 and 218-224: a geocoded pair of coordinates is stored on success
CoordsAfter(coords, geo) == IF geo.success THEN geo.coordinates ELSE coords

\* the user sends a message: chat_input appends it and the script run handles it
\* (lines 329-369): parse_and_geocode_locations, the location updates, the reply
\* of the agent and the automatic confirmation
HandleMessage(message) ==
    /\ auth # ""
    /\ session.messages + 5 <= MaxMessages
    /\ \E parsed \in { ParseLocations(message) } :
       \E doPickup \in { parsed.pickup_text # "" /\ session.pickup_location = "" },
          doDropoff \in { parsed.dropoff_text # "" /\ session.dropoff_location = "" } :
       \E pickup_resp \in IF doPickup THEN GeoResponses ELSE { RaisedError("") },
          dropoff_resp \in IF doDropoff THEN GeoResponses ELSE { RaisedError("") } :
       \E pickup_geo \in { IF doPickup THEN GeocodeWith(parsed.pickup_text, pickup_resp, 1)
                           ELSE EmptyDict },
          dropoff_geo \in { IF doDropoff THEN GeocodeWith(parsed.dropoff_text, dropoff_resp, 1)
                            ELSE EmptyDict } :
       \E located \in
            { [ session EXCEPT
                  !.pickup_location = IF doPickup THEN Title(parsed.pickup_text) ELSE @,
                  !.pickup_coords = CoordsAfter(@, pickup_geo),
                  !.dropoff_location = IF doDropoff THEN Title(parsed.dropoff_text) ELSE @,
                  !.dropoff_coords = CoordsAfter(@, dropoff_geo) ] } :
       \E bothCoords \in { located.pickup_coords # << >> /\ located.dropoff_coords # << >> } :
       \E doRoute \in { bothCoords /\ located.route_data = EmptyRoute } :
       \E route_resp \in IF doRoute THEN RouteResponses ELSE { RouteHttp(0, "", FALSE, << >>) } :
       \E out \in { IF doRoute
                     THEN RouteOutcome(located.pickup_coords \o located.dropoff_coords, route_resp)
                     ELSE EmptyRoute } :
       \E routed \in { IF doRoute /\ out.raised = "" THEN [ located EXCEPT !.route_data = out ]
                        ELSE located } :
         LET updates == (IF pickup_geo.success THEN 1 ELSE 0)
                          + (IF dropoff_geo.success THEN 1 ELSE 0)
             confirm == bothCoords /\ ~routed.locations_confirmed
             \* line 363: route_data is None, .get raises AttributeError
             crash == confirm /\ routed.route_data = EmptyRoute
         IN  /\ session' =
                  [ routed EXCEPT
                      !.messages = @ + 2 + updates + (IF confirm /\ ~crash THEN 1 ELSE 0),
                      !.locations_confirmed = IF confirm /\ ~crash THEN TRUE ELSE @ ]
             /\ chatLog' =
                  [ pickup_text |-> parsed.pickup_text, dropoff_text |-> parsed.dropoff_text,
                    pickup_geo |-> pickup_geo, dropoff_geo |-> dropoff_geo,
                    route_called |-> doRoute,
                    raised |-> IF crash THEN "'NoneType' object has no attribute 'get'"
                               ELSE "" ]
    /\ UNCHANGED auth
    /\ UNCHANGED << geoVars, routeVars, rateVars, fareVars, filterVars, dbVars, recVars, bookVars >>

\* the user presses "Start New Trip"
StartNewTrip ==
    /\ auth # ""
    /\ session' = NewTrip(session)
    /\ chatLog' = NoChatLog
    /\ UNCHANGED auth
    /\ UNCHANGED << geoVars, routeVars, rateVars, fareVars, filterVars, dbVars, recVars, bookVars >>

\* auth_ui.py lines 24-33: a user logs in; only user and authenticated are written
Login(user_id) ==
    /\ auth = ""
    /\ auth' = user_id
    /\ UNCHANGED << session, chatLog >>
    /\ UNCHANGED << geoVars, routeVars, rateVars, fareVars, filterVars, dbVars, recVars, bookVars >>

\* auth_ui.py lines 106-110: the Logout button clears authenticated, user and messages
LogoutSession(s) == [ s EXCEPT !.messages = 0 ]

Logout ==
    /\ auth # ""
    /\ auth' = ""
    /\ session' = LogoutSession(session)
    /\ chatLog' = NoChatLog
    /\ UNCHANGED << geoVars, routeVars, rateVars, fareVars, filterVars, dbVars, recVars, bookVars >>

(***************************************************************************)
(* The booking tools over the database (db/database.py) and the primary    *)
(* calendar.  db holds the rows of the vehicles, bookings and dispatches   *)
(* tables and the number of identifiers drawn so far; calendar holds the   *)
(* events and the number of events created so far.  None is written "".    *)
(* dbLast is the last tool call: its name, its first argument, the dict it *)
(* returned and, for cancel_booking, the booking_id it worked on.          *)
(***************************************************************************)
\* str.upper()
RECURSIVE Upper(_)
Upper(s) ==
    IF Len(s) = 0 THEN ""
    ELSE UpperChar(CharAt(s, 1)) \o Upper(SubSeq(s, 2, Len(s)))

\* the rows of the vehicles table, in the order of the table
VehicleOrder == << "SLV001", "SLV002" >>
VehicleIds == { VehicleOrder[k] : k \in 1..Len(VehicleOrder) }
VehicleRows ==
    [ SLV001 |-> [ status |-> "available", type |-> "sedan" ],
      SLV002 |-> [ status |-> "available", type |-> "van" ] ]

\* the user_id passed to book_vehicle, "" when the agent passes none
UserIds == { "", "U1" }

\* the users who are logged in and ask for a cancellation
Callers == { "U1", "U2" }

\* the most calls of book_vehicle that find the vehicle available, and the most events created
MaxBookings == 1
MaxEvents == 1

\* the statement that fails with a database error during book_vehicle, if any
BookFaults == { "none", "create_booking", "create_dispatch" }
\* the calendar at a call: reachable, token.json missing, or the API raising
CalendarStates == { "ok", "no_token", "error" }

NoCall ==
    [ op |-> "", arg |-> "", keys |-> {}, success |-> FALSE, status |-> "",
      booking_id |-> "", dispatch_id |-> "", vehicle_id |-> "", event_id |-> "",
      event_summary |-> "", error |-> "", warning |-> "", listed |-> << >>,
      caller |-> "" ]

DbInit ==
    /\ db = [ vehicles |-> VehicleRows, bookings |-> << >>, dispatches |-> << >>, ids |-> 0 ]
    /\ calendar = [ events |-> {}, created |-> 0 ]
    /\ dbLast = NoCall

\* the rows of a table that satisfy a test, as a sequence
BookingsById(booking_id) == SelectSeq(db.bookings, LAMBDA b : b.booking_id = booking_id)
BookingsByEvent(event_id) == SelectSeq(db.bookings, LAMBDA b : b.calendar_event_id = event_id)

\* database.py lines 14-44: get_available_vehicles, without a location filter
get_available_vehicles(vehicle_type) ==
    SelectSeq(VehicleOrder,
              LAMBDA v : /\ db.vehicles[v].status = "available"
                         /\ (vehicle_type # "" => db.vehicles[v].type = vehicle_type))

\* database.py lines 168-213: create_booking inserts a confirmed booking; no
\* caller passes calendar_event_id
create_booking(d, booking_id, user_id, vehicle_id) ==
    [ d EXCEPT !.bookings =
        Append(@, [ booking_id |-> booking_id, user_id |-> user_id, vehicle_id |-> vehicle_id,
                    status |-> "confirmed", calendar_event_id |-> "" ]) ]

\* database.py lines 84-119: create_dispatch inserts the dispatch and puts the vehicle on trip
create_dispatch(d, dispatch_id, user_id, vehicle_id) ==
    [ d EXCEPT !.dispatches =
                 Append(@, [ dispatch_id |-> dispatch_id, vehicle_id |-> vehicle_id,
                             user_id |-> user_id, status |-> "dispatched" ]),
               !.vehicles[vehicle_id].status = "on_trip" ]

\* database.py lines 276-290: cancel_booking marks the booking cancelled
cancel_booking_db(d, booking_id) ==
    LET rows == d.bookings
    IN  [ d EXCEPT !.bookings =
            [ k \in 1..Len(rows) |-> IF rows[k].booking_id = booking_id
                                     THEN [ rows[k] EXCEPT !.status = "cancelled" ]
                                     ELSE rows[k] ] ]

\* list_available_vehicles("", vehicle_type)
ListAvailableVehicles(vehicle_type) ==
    /\ dbLast' = [ NoCall EXCEPT !.op = "list_available_vehicles", !.arg = vehicle_type,
                                 !.success = TRUE,
                                 !.listed = get_available_vehicles(vehicle_type) ]
    /\ UNCHANGED << db, calendar >>
    /\ UNCHANGED << geoVars, routeVars, rateVars, fareVars, filterVars, chatVars, recVars, bookVars >>

\* book_vehicle(vehicle_id, ..., user_id) as one call
BookVehicle(vehicle_id, user_id, fault) ==
    /\ (vehicle_id \in DOMAIN db.vehicles /\ db.vehicles[vehicle_id].status = "available")
          => db.ids < MaxBookings
    /\ LET call == [ NoCall EXCEPT !.op = "book_vehicle", !.arg = vehicle_id ]
           n == db.ids + 1
           saved == user_id # "" /\ fault # "create_booking"
           booking_id == IF saved THEN "BK-" \o ToString(n) ELSE ""
           dispatch_id == "D-" \o ToString(n)
           drawn == [ db EXCEPT !.ids = n ]
           booked == IF saved THEN create_booking(drawn, booking_id, user_id, vehicle_id)
                     ELSE drawn
       IN  IF vehicle_id \notin DOMAIN db.vehicles
           THEN /\ db' = db
                /\ dbLast' = [ call EXCEPT !.keys = { "status", "message" }, !.status = "error",
                                           !.error = "Vehicle " \o vehicle_id \o " not found" ]
           ELSE IF db.vehicles[vehicle_id].status # "available"
           THEN /\ db' = db
                /\ dbLast' = [ call EXCEPT !.keys = { "status", "message" }, !.status = "error",
                                           !.error = "Vehicle " \o vehicle_id
                                                        \o " is not available" ]
           ELSE IF fault = "create_dispatch"
           THEN /\ db' = booked
                /\ dbLast' = [ call EXCEPT !.keys = { "success", "status", "message" },
                                           !.status = "error",
                                           !.error = "Booking failed: database error" ]
           ELSE /\ db' = create_dispatch(booked, dispatch_id, user_id, vehicle_id)
                /\ dbLast' = [ call EXCEPT
                                 !.keys = { "success", "booking_id", "dispatch_id", "vehicle_id",
                                            "status", "message" },
                                 !.success = TRUE,
                                 !.status = "booked",
                                 !.booking_id = IF saved THEN booking_id ELSE dispatch_id,
                                 !.dispatch_id = dispatch_id,
                                 !.vehicle_id = vehicle_id ]
    /\ UNCHANGED calendar
    /\ UNCHANGED << geoVars, routeVars, rateVars, fareVars, filterVars, chatVars, recVars, bookVars >>

\* the identifiers the confirmations of book_vehicle have shown (lines 68-83): the
\* dispatch ids, and the booking ids of the calls that went on to dispatch
RideIds ==
    LET dispatch_ids == { db.dispatches[k].dispatch_id : k \in 1..Len(db.dispatches) }
        booking_ids == { db.bookings[k].booking_id : k \in 1..Len(db.bookings) }
    IN  dispatch_ids
          \cup { b \in booking_ids : ("D-" \o SubSeq(b, 4, Len(b))) \in dispatch_ids }

\* create_calendar_booking(dispatch_id, ...) as one call
CreateCalendarBooking(dispatch_id, state) ==
    /\ calendar.created < MaxEvents
    /\ LET call == [ NoCall EXCEPT !.op = "create_calendar_booking", !.arg = dispatch_id ]
           event_id == "evt-" \o ToString(calendar.created + 1)
       IN  IF state = "ok"
           THEN /\ calendar' = [ events |-> calendar.events
                                              \cup { [ id |-> event_id,
                                                       dispatch_id |-> dispatch_id ] },
                                 created |-> calendar.created + 1 ]
                /\ dbLast' = [ call EXCEPT !.keys = { "success", "event_id", "message" },
                                           !.success = TRUE, !.event_id = event_id ]
           ELSE /\ calendar' = calendar
                /\ dbLast' = [ call EXCEPT
                                 !.keys = { "success", "error", "message" },
                                 !.error = IF state = "no_token"
                                           THEN "token.json not found. Run google_calendar_auth.py first to authenticate."
                                           ELSE "calendar API error" ]
    /\ UNCHANGED db
    /\ UNCHANGED << geoVars, routeVars, rateVars, fareVars, filterVars, chatVars, recVars, bookVars >>

\* the event_id values cancel_booking is called with: the identifiers shown to the
\* user, the events of the calendar, a booking id in lower case and an unknown one
CancelIds == RideIds \cup { e.id : e \in calendar.events } \cup { "bk-1", "BK-404" }

\* cancel_booking(event_id) as one call of the agent in the chat of user caller (the
\* tool itself receives no user); updated says whether the UPDATE of
\* database.cancel_booking went through
CancelBooking(event_id, state, updated, caller) ==
    /\ \E isBookingId \in { StartsWith(Upper(event_id), "BK-") } :
       \E rows \in { IF isBookingId THEN BookingsById(event_id)
                     ELSE BookingsByEvent(event_id) } :
       \E booking_id \in { IF isBookingId THEN event_id
                           ELSE IF Len(rows) > 0 THEN rows[1].booking_id ELSE "" } :
       \E calendar_event_id \in { IF ~isBookingId THEN event_id
                                  ELSE IF Len(rows) > 0 THEN rows[1].calendar_event_id
                                  ELSE "" } :
       LET call == [ NoCall EXCEPT !.op = "cancel_booking", !.arg = event_id,
                                   !.caller = caller ]
       IN  IF isBookingId /\ Len(rows) = 0
           THEN /\ dbLast' = [ call EXCEPT !.keys = { "success", "error", "message" },
                                           !.error = "Booking not found" ]
                /\ UNCHANGED << db, calendar >>
           ELSE IF booking_id # "" /\ ~updated
           THEN /\ dbLast' = [ call EXCEPT !.keys = { "success", "error", "message" },
                                           !.booking_id = booking_id,
                                           !.error = "Database update failed" ]
                /\ UNCHANGED << db, calendar >>
           ELSE \E events \in { { e \in calendar.events : e.id = calendar_event_id } } :
                \E removed \in { calendar_event_id # "" /\ state = "ok" /\ events # {} } :
                LET warning == IF calendar_event_id = "" \/ removed THEN ""
                               ELSE IF state = "no_token"
                               THEN "Calendar integration not set up; booking cancelled in system only."
                               ELSE "Booking cancelled, but calendar event could not be removed"
                IN  /\ db' = IF booking_id # "" THEN cancel_booking_db(db, booking_id) ELSE db
                    /\ calendar' = IF removed
                                   THEN [ calendar EXCEPT !.events = @ \ events ]
                                   ELSE calendar
                    /\ dbLast' = [ call EXCEPT
                                     !.keys = { "success", "event_id", "event_summary",
                                                "start_time", "reason", "message" },
                                     !.success = TRUE,
                                     !.booking_id = booking_id,
                                     !.event_id = calendar_event_id,
                                     !.event_summary = IF removed THEN "Vehicle Dispatch" ELSE "",
                                     !.warning = warning ]
    /\ UNCHANGED << geoVars, routeVars, rateVars, fareVars, filterVars, chatVars, recVars, bookVars >>

\* database.py: get_user_bookings without a status filter, the rows of one user
get_user_bookings(user_id) == SelectSeq(db.bookings, LAMBDA b : b.user_id = user_id)

\* get_my_bookings(user_id): the bookings of the user that are not cancelled
get_my_bookings(user_id) ==
    SelectSeq(get_user_bookings(user_id), LAMBDA b : b.status # "cancelled")

\* backend_api.py lines 512-536: POST /api/bookings/{booking_id}/cancel with the
\* token of user_id.  Every HTTPException raised inside the try block is caught by
\* its except clause and raised again with status 400.
CancelEndpoint(booking_id, user_id, updated) ==
    /\ \E rows \in { BookingsById(booking_id) } :
       LET call == [ NoCall EXCEPT !.op = "POST /api/bookings/{booking_id}/cancel",
                                   !.arg = booking_id, !.caller = user_id,
                                   !.keys = { "detail" }, !.status = "400" ]
           ok == [ call EXCEPT !.keys = { "success", "message" }, !.status = "200",
                               !.success = TRUE, !.booking_id = booking_id ]
       IN  IF Len(rows) = 0
           THEN /\ dbLast' = [ call EXCEPT !.error = "404: Booking not found" ]
                /\ db' = db
           ELSE IF rows[1].user_id # user_id
           THEN /\ dbLast' = [ call EXCEPT
                                 !.error = "403: Not authorized to cancel this booking" ]
                /\ db' = db
           ELSE IF rows[1].status = "cancelled"
           THEN /\ dbLast' = [ ok EXCEPT !.warning = "Booking already cancelled" ]
                /\ db' = db
           ELSE IF ~updated
           THEN /\ dbLast' = [ call EXCEPT !.error = "400: Failed to cancel booking" ]
                /\ db' = db
           ELSE /\ dbLast' = ok
                /\ db' = cancel_booking_db(db, booking_id)
    /\ UNCHANGED calendar
    /\ UNCHANGED << geoVars, routeVars, rateVars, fareVars, filterVars, chatVars, recVars, bookVars >>

\* auth_ui.py lines 120-167: the booking history of the logged-in user shows a
\* Cancel button for each of the user's confirmed bookings
CancelFromHistory(booking_id, user_id, updated) ==
    /\ \E k \in 1..Len(get_user_bookings(user_id)) :
          /\ get_user_bookings(user_id)[k].booking_id = booking_id
          /\ get_user_bookings(user_id)[k].status = "confirmed"
    /\ LET call == [ NoCall EXCEPT !.op = "show_booking_history", !.arg = booking_id,
                                   !.caller = user_id, !.booking_id = booking_id ]
       IN  IF updated
           THEN /\ db' = cancel_booking_db(db, booking_id)
                /\ dbLast' = [ call EXCEPT !.success = TRUE ]
           ELSE /\ db' = db
                /\ dbLast' = [ call EXCEPT !.error = "Failed to cancel booking" ]
    /\ UNCHANGED calendar
    /\ UNCHANGED << geoVars, routeVars, rateVars, fareVars, filterVars, chatVars, recVars, bookVars >>

(***************************************************************************)
(* recommend_best_vehicle (tools/recommend_best_vehicle.py).  A vehicle    *)
(* option is a dict with the vehicle, its tier, its capacity and its       *)
(* price in LKR; trip_details carries the requested passengers.            *)
(***************************************************************************)
\* the vehicle options an agent passes on
Offers ==
    { [ vehicle_id |-> "SLV001", tier |-> "Economy",  capacity |-> 4, price |-> 1000 ],
      [ vehicle_id |-> "SLV002", tier |-> "Economy",  capacity |-> 4, price |-> 1200 ],
      [ vehicle_id |-> "SLV003", tier |-> "SUV",      capacity |-> 6, price |-> 1500 ],
      [ vehicle_id |-> "SLV004", tier |-> "Van",      capacity |-> 8, price |-> 1500 ],
      [ vehicle_id |-> "SLV005", tier |-> "Luxury",   capacity |-> 4, price |-> 3000 ] }

\* the longest list of options passed to one call
MaxRanked == 4

\* the lists of distinct options, in any order
OfferLists ==
    { list \in UNION { [ 1..n -> Offers ] : n \in 0..MaxRanked } :
        \A i, j \in 1..Len(list) : i # j => list[i] # list[j] }

\* top_n: the default 3 and the other integers an agent passes
DefaultTopN == 3
TopNs == { -1, 0, 1, DefaultTopN, 5 }

\* the requested passengers of trip_details
Passengers == { 1, 4 }

\* list[:n]
SliceTo(list, n) ==
    IF n >= 0
    THEN SubSeq(list, 1, IF n < Len(list) THEN n ELSE Len(list))
    ELSE SubSeq(list, 1, IF Len(list) + n > 0 THEN Len(list) + n ELSE 0)

\* list[1:]
Rest(list) == IF Len(list) > 1 THEN SubSeq(list, 2, Len(list)) ELSE << >>

\* None as a vehicle option
NoOffer == [ vehicle_id |-> "", tier |-> "", capacity |-> 0, price |-> 0 ]

EmptyRecommendation ==
    [ keys |-> {}, primary_recommendation |-> NoOffer, alternatives |-> << >>,
      estimated_total_time |-> 0, estimated_total_cost |-> 0 ]

\* lines 25-37; estimated_total_cost in cents
recommend_best_vehicle(ranked_vehicles, trip_details, top_n) ==
    LET top_vehicles == SliceTo(ranked_vehicles, top_n)
    IN  [ keys |-> { "primary_recommendation", "alternatives", "reasoning",
                     "estimated_total_time", "estimated_total_cost" },
          primary_recommendation |-> IF Len(top_vehicles) > 0 THEN top_vehicles[1]
                                     ELSE NoOffer,
          alternatives |-> Rest(top_vehicles),
          estimated_total_time |-> 33,
          estimated_total_cost |-> 4250 ]

RecInit ==
    /\ qPc = "idle"
    /\ qArgs = [ ranked_vehicles |-> << >>, passengers |-> 1, top_n |-> DefaultTopN ]
    /\ qResult = EmptyRecommendation

\* the agent calls recommend_best_vehicle and receives the dict
RecommendCall(ranked_vehicles, passengers, top_n) ==
    /\ qPc = "idle"
    /\ qPc' = "returned"
    /\ qArgs' = [ ranked_vehicles |-> ranked_vehicles, passengers |-> passengers,
                  top_n |-> top_n ]
    /\ qResult' = recommend_best_vehicle(ranked_vehicles, [ passengers |-> passengers ], top_n)
    /\ UNCHANGED << geoVars, routeVars, rateVars, fareVars, filterVars, chatVars, dbVars,
                    bookVars >>

\* the agent has presented the recommendation
RecommendDone ==
    /\ qPc = "returned"
    /\ qPc' = "idle"
    /\ qArgs' = [ ranked_vehicles |-> << >>, passengers |-> 1, top_n |-> DefaultTopN ]
    /\ qResult' = EmptyRecommendation
    /\ UNCHANGED << geoVars, routeVars, rateVars, fareVars, filterVars, chatVars, dbVars,
                    bookVars >>

(***************************************************************************)
(* book_vehicle in several agent runs at the same time (one run per chat   *)
(* session or API request), statement by statement.  Every function of     *)
(* db/database.py opens its own connection and commits before it returns,  *)
(* so each of them is one step on db.                                      *)
(***************************************************************************)
Sessions == { 1, 2 }

\* a run that has not called book_vehicle
NoBooking ==
    [ pc |-> "idle", vehicle_id |-> "", user_id |-> "", booking_id |-> "", result |-> NoCall ]

BookInit == calls = [ s \in Sessions |-> NoBooking ]

\* lines 39-52: get_vehicle_by_id and the two checks
BookCheck(s, vehicle_id, user_id) ==
    /\ calls[s].pc = "idle"
    /\ LET call == [ NoCall EXCEPT !.op = "book_vehicle", !.arg = vehicle_id ]
           this == [ NoBooking EXCEPT !.vehicle_id = vehicle_id, !.user_id = user_id ]
       IN  IF vehicle_id \notin DOMAIN db.vehicles
           THEN calls' = [ calls EXCEPT ![s] =
                             [ this EXCEPT !.pc = "returned",
                                           !.result = [ call EXCEPT
                                               !.keys = { "status", "message" },
                                               !.status = "error",
                                               !.error = "Vehicle " \o vehicle_id
                                                            \o " not found" ] ] ]
           ELSE IF db.vehicles[vehicle_id].status # "available"
           THEN calls' = [ calls EXCEPT ![s] =
                             [ this EXCEPT !.pc = "returned",
                                           !.result = [ call EXCEPT
                                               !.keys = { "status", "message" },
                                               !.status = "error",
                                               !.error = "Vehicle " \o vehicle_id
                                                            \o " is not available" ] ] ]
           ELSE calls' = [ calls EXCEPT ![s] = [ this EXCEPT !.pc = "checked" ] ]
    /\ UNCHANGED << db, calendar, dbLast >>
    /\ UNCHANGED << geoVars, routeVars, rateVars, fareVars, filterVars, chatVars, recVars >>

\* lines 68-90: create_booking when a user_id was passed; its exception is caught
BookSave(s, raised) ==
    /\ calls[s].pc = "checked"
    /\ LET call == calls[s]
           n == db.ids + 1
           booking_id == "BK-" \o ToString(n)
       IN  IF call.user_id # "" /\ ~raised
           THEN /\ db' = create_booking([ db EXCEPT !.ids = n ], booking_id,
                                        call.user_id, call.vehicle_id)
                /\ calls' = [ calls EXCEPT ![s].pc = "saved", ![s].booking_id = booking_id ]
           ELSE /\ db' = db
                /\ calls' = [ calls EXCEPT ![s].pc = "saved" ]
    /\ UNCHANGED << calendar, dbLast >>
    /\ UNCHANGED << geoVars, routeVars, rateVars, fareVars, filterVars, chatVars, recVars >>

\* lines 92-138: create_dispatch and the confirmation, or the outer except clause
BookDispatch(s, raised) ==
    /\ calls[s].pc = "saved"
    /\ LET call == calls[s]
           n == db.ids + 1
           dispatch_id == "D-" \o ToString(n)
           out == [ NoCall EXCEPT !.op = "book_vehicle", !.arg = call.vehicle_id ]
       IN  IF raised
           THEN /\ db' = db
                /\ calls' = [ calls EXCEPT
                                ![s].pc = "returned",
                                ![s].result = [ out EXCEPT
                                    !.keys = { "success", "status", "message" },
                                    !.status = "error",
                                    !.error = "Booking failed: database error" ] ]
           ELSE /\ db' = create_dispatch([ db EXCEPT !.ids = n ], dispatch_id,
                                         call.user_id, call.vehicle_id)
                /\ calls' = [ calls EXCEPT
                                ![s].pc = "returned",
                                ![s].result = [ out EXCEPT
                                    !.keys = { "success", "booking_id", "dispatch_id",
                                               "vehicle_id", "status", "message" },
                                    !.success = TRUE,
                                    !.status = "booked",
                                    !.booking_id = IF call.booking_id # ""
                                                   THEN call.booking_id ELSE dispatch_id,
                                    !.dispatch_id = dispatch_id,
                                    !.vehicle_id = call.vehicle_id ] ]
    /\ UNCHANGED << calendar, dbLast >>
    /\ UNCHANGED << geoVars, routeVars, rateVars, fareVars, filterVars, chatVars, recVars >>

(***************************************************************************)
(* Specifications.                                                         *)
(***************************************************************************)
Init ==
    /\ GeoInit /\ RouteInit /\ RateInit /\ FareInit
    /\ FilterInit
    /\ ChatInit
    /\ DbInit
    /\ RecInit
    /\ BookInit

\* the place resolver
Next ==
    \/ \E text \in Texts : GeoCall(text)
    \/ \E resp \in GeoResponses : GeoRespond(resp)

Spec == Init /\ [][Next]_vars

\* the route estimator
NextRoute ==
    \/ \E origin_lat \in Latitudes, origin_lon \in Longitudes,
          destination_lat \in Latitudes, destination_lon \in Longitudes :
            RouteCall(origin_lat, origin_lon, destination_lat, destination_lon)
    \/ \E resp \in RouteResponses : RouteRespond(resp)

SpecRoute == Init /\ [][NextRoute]_vars

\* concurrent calls of the place resolver
NextRate ==
    \/ \E t \in Threads : RateCall(t)
    \/ \E t \in Threads : RateRequest(t)
    \/ \E t \in Threads : RateReturn(t)
    \/ Tick

SpecRate == Init /\ [][NextRate]_vars

\* the fare calculator
NextFare ==
    \/ \E distance_km \in FareDistances, duration_minutes \in FareDurations,
          vehicle_type \in VehicleTypes, surge_multiplier \in SurgeMultipliers :
            EstimateCall(distance_km, duration_minutes, vehicle_type, surge_multiplier)
    \/ EstimateDone

SpecFare == Init /\ [][NextFare]_vars

\* the vehicle filter
NextFilter ==
    \/ \E vehicles \in SeqsUpTo(FleetVehicles, MaxVehicles), min_capacity \in MinCapacities,
          required_features \in RequiredFeatures :
            FilterCall(vehicles, min_capacity, required_features)
    \/ FilterDone

SpecFilter == Init /\ [][NextFilter]_vars

\* the chat page
NextChat ==
    \/ \E user_id \in Accounts : Login(user_id)
    \/ \E message \in Messages : HandleMessage(message)
    \/ StartNewTrip
    \/ Logout

SpecChat == Init /\ [][NextChat]_vars

\* the booking tools, one call at a time
NextDb ==
    \/ \E vehicle_type \in { "", "van" } : ListAvailableVehicles(vehicle_type)
    \/ \E vehicle_id \in VehicleIds \cup { "SLV999" }, user_id \in UserIds, fault \in BookFaults :
          BookVehicle(vehicle_id, user_id, fault)
    \/ \E dispatch_id \in RideIds, state \in CalendarStates :
          CreateCalendarBooking(dispatch_id, state)
    \/ \E event_id \in CancelIds, state \in CalendarStates, updated \in BOOLEAN,
          caller \in Callers :
            CancelBooking(event_id, state, updated, caller)
    \/ \E booking_id \in CancelIds, user_id \in Callers, updated \in BOOLEAN :
          CancelEndpoint(booking_id, user_id, updated)
    \/ \E booking_id \in CancelIds, user_id \in Callers, updated \in BOOLEAN :
          CancelFromHistory(booking_id, user_id, updated)

SpecDb == Init /\ [][NextDb]_vars

\* recommend_best_vehicle calls, one at a time
NextRec ==
    \/ \E ranked_vehicles \in OfferLists, passengers \in Passengers, top_n \in TopNs :
          RecommendCall(ranked_vehicles, passengers, top_n)
    \/ RecommendDone

SpecRec == Init /\ [][NextRec]_vars

\* book_vehicle in the runs of several sessions, interleaved
NextBook ==
    \/ \E s \in Sessions, vehicle_id \in VehicleIds \cup { "SLV999" }, user_id \in UserIds :
          BookCheck(s, vehicle_id, user_id)
    \/ \E s \in Sessions, raised \in BOOLEAN : BookSave(s, raised)
    \/ \E s \in Sessions, raised \in BOOLEAN : BookDispatch(s, raised)

SpecBook == Init /\ [][NextBook]_vars

(***************************************************************************)
(* Properties of the place resolver.                                       *)
(***************************************************************************)
Returned == gPc = "done"
LastResponse == gResps[Len(gResps)]
ZeroResults(resp) == resp.kind = "http" /\ resp.status = 200 /\ Len(resp.data) = 0
HasResults(resp, n) == resp.kind = "http" /\ resp.status = 200 /\ Len(resp.data) >= n
TransportFailure(resp) == resp.kind = "exception" \/ (resp.kind = "http" /\ resp.status # 200)
HasCoordinates(d) == "coordinates" \in d.keys
HasLandmarkKeyword(text) ==
    \E i \in 1..Len(specifics) : Contains(specifics[i], Strip(Lower(text)))
IsBareCity(text) ==
    \E i \in 1..Len(broad_locations) : Strip(Lower(text)) = broad_locations[i]

C2_FallbackLookupSent ==
    (Returned /\ ZeroResults(gResps[1]) /\ _get_fallback_location(gInput) # "")
        => /\ Len(gLookups) >= 2
           /\ gLookups[2].name = _get_fallback_location(gInput)
           /\ Len(gResps) >= 2

\* C3: a returned dict has coordinates exactly when it reports success with
\* confidence high; an ambiguous dict has a non-empty list of alternatives
\* and no coordinates, and every failure dict has no coordinates.
C3_CoordinatesIffSuccess ==
    Returned =>
        /\ HasCoordinates(gResult) <=> (gResult.success /\ gResult.confidence = "high")
        /\ HasCoordinates(gResult) => Len(gResult.coordinates) = 2
        /\ gResult.ambiguous =>
              /\ "alternatives" \in gResult.keys
              /\ Len(gResult.alternatives) > 0
              /\ ~HasCoordinates(gResult)
              /\ ~gResult.success
        /\ ~gResult.success => ~HasCoordinates(gResult)

\* an ambiguous dict was returned for a city the table of alternatives does not list
C3_Witness ==
    /\ Returned
    /\ gResult.ambiguous
    /\ \A i \in 1..Len(alternatives_map) : alternatives_map[i][1] # Strip(Lower(gInput))

\* C6: on a status other than 200 or an exception of the lookup the call
\* returns a failure dict (success false, no coordinates, an error) whose
\* error differs from the "not found" error of zero results; every call
\* that got its response has returned a dict.
C6_FailureIsStructured ==
    /\ (Returned /\ TransportFailure(LastResponse)) =>
          /\ "success" \in gResult.keys /\ ~gResult.success
          /\ ~HasCoordinates(gResult)
          /\ "error" \in gResult.keys
          /\ gResult.error # NotFoundError
    /\ (gPc # "waiting" /\ Len(gResps) > 0) => (Returned /\ "success" \in gResult.keys)

\* a call returned after the service answered with a status other than 200
C6_Witness == Returned /\ LastResponse.kind = "http" /\ LastResponse.status # 200

\* C7: for a broad text (no landmark keyword, trimmed lower-cased text a bare
\* city name) and 2 or more results the dict is ambiguous, with the
\* alternatives the fixed table binds to that city (6 entries for Colombo)
\* or, for a city the table does not list, the three suggestions
\* "<text> Bus Stand", "<text> Railway Station", "<text> Town Center".
C7_BroadIsAmbiguous ==
    (Returned /\ ~HasLandmarkKeyword(gInput) /\ IsBareCity(gInput) /\ HasResults(gResps[1], 2)) =>
        /\ gResult.ambiguous
        /\ gLookups[1].limit = 5
        /\ \A i \in 1..Len(alternatives_map) :
              alternatives_map[i][1] = Strip(Lower(gInput))
                  => gResult.alternatives = alternatives_map[i][2]
        /\ (\A i \in 1..Len(alternatives_map) : alternatives_map[i][1] # Strip(Lower(gInput)))
              => gResult.alternatives = << gInput \o " Bus Stand",
                                           gInput \o " Railway Station",
                                           gInput \o " Town Center" >>
        /\ Strip(Lower(gInput)) = "colombo" =>
              gResult.alternatives = << "Colombo Fort (Railway Station)", "Pettah (Market Area)",
                                        "Bambalapitiya", "Kollupitiya",
                                        "Colombo 7 (Cinnamon Gardens)", "Dehiwala" >>

\* two results came back for a bare city name of two words
C7_Witness ==
    /\ Returned
    /\ gInput = "Nuwara Eliya"
    /\ HasResults(gResps[1], 2)

\* C8: a text with a landmark keyword never gets an ambiguous dict: the
\* lookup asks for 1 candidate, and when at least one result comes back the
\* dict reports success, confidence high, with the coordinates and the
\* display name of the first result.
C8_LandmarkIsNeverAmbiguous ==
    (Len(gLookups) > 0 /\ HasLandmarkKeyword(gInput)) =>
        /\ gLookups[1].limit = 1
        /\ Returned => ~gResult.ambiguous
        /\ (Returned /\ HasResults(gResps[1], 1)) =>
              /\ gResult.success
              /\ gResult.confidence = "high"
              /\ gResult.coordinates = << FloatOf(gResps[1].data[1].lat), FloatOf(gResps[1].data[1].lon) >>
              /\ gResult.full_address = gResps[1].data[1].display_name
              /\ gResult.display_name = gResps[1].data[1].display_name

\* "Colombo Fort" got two results
C8_Witness ==
    /\ Returned
    /\ gInput = "Colombo Fort"
    /\ HasResults(gResps[1], 2)

\* C9: a text that is empty after trimming fails with InvalidInput: the
\* call returns a failure, never a place.
C9_EmptyTextFails ==
    (Returned /\ Strip(gInput) = "") => ~gResult.success

(***************************************************************************)
(* Properties of the timing of the place resolver.                         *)
(***************************************************************************)
\* C4: under any interleaving of concurrent geocode_location calls of one
\* process, no two requests to the geocoding service are sent less than one
\* second apart.
C4_RequestsOneSecondApart ==
    \A i, j \in 1..Len(requests) :
        i < j => requests[j].at - requests[i].at >= SleepMs

(***************************************************************************)
(* Properties of the route estimator.                                      *)
(***************************************************************************)
ValidLatitude(lat) == -90 <= lat /\ lat <= 90
ValidLongitude(lon) == -180 <= lon /\ lon <= 180
ValidCoordinates(args) ==
    /\ ValidLatitude(args[1]) /\ ValidLongitude(args[2])
    /\ ValidLatitude(args[3]) /\ ValidLongitude(args[4])
NetworkRouted(resp) ==
    /\ resp.kind = "http" /\ resp.status = 200
    /\ resp.code = "Ok" /\ Len(resp.routes) > 0

\* C5: for valid coordinates and every behaviour of the routing service
\* calculate_route returns a successful estimate with distance_km >= 0 and
\* duration_minutes >= 0 and never fails; when the service gave no route
\* the estimate is the straight-line one, its duration_minutes being
\* distance_km / 50 * 60 rounded to 1 decimal.
C5_RouteNeverFails ==
    (rPc = "done" /\ ValidCoordinates(rArgs)) =>
        /\ rRaised = ""
        /\ rResult.success
        /\ rResult.distance_km >= 0
        /\ rResult.duration_minutes >= 0
        /\ ~NetworkRouted(rResp) =>
              /\ rResult.source = "Haversine formula (fallback)"
              \* within half a tenth of a minute of distance_km / 50 * 60
              /\ Abs(rResult.duration_minutes * 500 - rResult.distance_km * 60) <= 250

\* C10: with a coordinate outside the valid ranges calculate_route fails
\* with InvalidInput and gives no route estimate.
C10_InvalidCoordinatesFail ==
    (rPc = "done" /\ ~ValidCoordinates(rArgs)) => ~rResult.success

(***************************************************************************)
(* Properties of the fare calculator.                                      *)
(***************************************************************************)
FareReturned == fPc = "done"

\* the amount in 1/100 LKR is the one nearest to the exact amount in 1/10000 LKR
NearestCent(amount, exact) == Abs(100 * amount - exact) <= 50

\* C11: every amount of the returned breakdown is the exact, unrounded amount
\* rounded once to 2 decimals: base_fare, distance_charge and time_charge are the
\* nearest cent of the three charges, subtotal is the nearest cent of their exact
\* sum, final_total is the nearest cent of the exact sum times surge_multiplier,
\* and estimated_cost equals final_total.
C11_RoundedOnlyOnReturn ==
    FareReturned =>
        LET p == Pricing(fArgs.vehicle_type)
            base == base_rate * p.base_multiplier * 100
            dist == fArgs.distance_km * p.per_km
            time == fArgs.duration_minutes * p.per_min * 10000
            b == fResult.breakdown
        IN  /\ NearestCent(b.base_fare, base)
            /\ NearestCent(b.distance_charge, dist)
            /\ NearestCent(b.time_charge, time)
            /\ NearestCent(b.subtotal, base + dist + time)
            /\ Abs(1000 * b.final_total - (base + dist + time) * fArgs.surge_multiplier) <= 500
            /\ b.surge_multiplier = fArgs.surge_multiplier
            /\ fResult.estimated_cost = b.final_total

\* a call whose subtotal is not a whole number of cents and whose returned
\* final_total differs from the returned subtotal times the surge
C11_Witness ==
    /\ FareReturned
    /\ (fArgs.distance_km * Pricing(fArgs.vehicle_type).per_km) % 100 # 0
    /\ fArgs.surge_multiplier = 15
    /\ 10 * fResult.breakdown.final_total # fResult.breakdown.subtotal * 15

\* the comfort label and the base fare, in 1/100 LKR, of the five rate tiers
TierComfort ==
    [ Luxury |-> "Premium", Van |-> "Spacious", SUV |-> "Comfort", Economy |-> "Basic",
      Standard |-> "Standard" ]
TierBaseFare ==
    [ Luxury |-> 37500, Van |-> 32500, SUV |-> 30000, Economy |-> 25000, Standard |-> 25000 ]

\* the returned dict is priced in the given tier
PricedAs(result, tier) ==
    /\ result.vehicle_category = TierComfort[tier]
    /\ result.breakdown.base_fare = TierBaseFare[tier]

\* C12: the rate tier follows the substrings of the lower-cased vehicle type in
\* the priority luxury/premium/mercedes/bmw -> Luxury, van -> Van, suv -> SUV,
\* economy/budget -> Economy, anything else -> Standard; a label that differs
\* from the one of the call only in letter case is priced in the same tier.
C12_TierByPriority ==
    FareReturned =>
        LET v == Lower(fArgs.vehicle_type)
            luxury == \/ Contains("luxury", v) \/ Contains("premium", v)
                      \/ Contains("mercedes", v) \/ Contains("bmw", v)
            van == Contains("van", v)
            suv == Contains("suv", v)
            economy == Contains("economy", v) \/ Contains("budget", v)
        IN  /\ luxury => PricedAs(fResult, "Luxury")
            /\ (~luxury /\ van) => PricedAs(fResult, "Van")
            /\ (~luxury /\ ~van /\ suv) => PricedAs(fResult, "SUV")
            /\ (~luxury /\ ~van /\ ~suv /\ economy) => PricedAs(fResult, "Economy")
            /\ (~luxury /\ ~van /\ ~suv /\ ~economy) => PricedAs(fResult, "Standard")
            /\ \A other \in VehicleTypes :
                 Lower(other) = v =>
                    estimate_trip_cost(fArgs.distance_km, fArgs.duration_minutes, other,
                                       fArgs.surge_multiplier) = fResult

\* "Mercedes-Benz E-Class" in capitals is priced as Luxury
C12_Witness ==
    /\ FareReturned
    /\ fArgs.vehicle_type = "MERCEDES-BENZ E-CLASS"
    /\ PricedAs(fResult, "Luxury")

\* the total of a call like the one made, for a vehicle of the given tier
TierTotal(tier) ==
    estimate_trip_cost(fArgs.distance_km, fArgs.duration_minutes, tier,
                       fArgs.surge_multiplier).estimated_cost

\* a call with distance >= 0, duration >= 0 and surge > 0
NonNegativeTrip ==
    /\ FareReturned
    /\ fArgs.distance_km >= 0 /\ fArgs.duration_minutes >= 0 /\ fArgs.surge_multiplier > 0

C14_NegativeSurgeFails ==
    (FareReturned /\ fArgs.surge_multiplier < 0) => "estimated_cost" \notin fResult.keys

\* C15: with surge 1.0, a call whose distance and duration are both zero or
\* negative returns a total equal to the base fare of its category (250 for
\* Economy).
C15_FloorIsBaseFare ==
    (/\ FareReturned
     /\ fArgs.distance_km <= 0 /\ fArgs.duration_minutes <= 0
     /\ fArgs.surge_multiplier = 10)
        => /\ fResult.estimated_cost = fResult.breakdown.base_fare
           /\ PricedAs(fResult, "Economy") => fResult.estimated_cost = 25000

\* the total of a call like the one made, for another distance and duration
TotalFor(distance_km, duration_minutes) ==
    estimate_trip_cost(distance_km, duration_minutes, fArgs.vehicle_type,
                       fArgs.surge_multiplier).estimated_cost

\* C16: for the vehicle type and the surge of the call, a longer distance or a
\* longer duration never gives a smaller total.
C16_MonotoneInDistanceAndDuration ==
    FareReturned =>
        /\ \A distance_km \in FareDistances :
              distance_km >= fArgs.distance_km
                 => TotalFor(distance_km, fArgs.duration_minutes) >= fResult.estimated_cost
        /\ \A duration_minutes \in FareDurations :
              duration_minutes >= fArgs.duration_minutes
                 => TotalFor(fArgs.distance_km, duration_minutes) >= fResult.estimated_cost

(***************************************************************************)
(* Properties of the vehicle filter.                                       *)
(***************************************************************************)
FilterReturned == vPc = "done"

\* the items of the comma-separated features of a vehicle
FeaturesOf(v) == { Split(v.features, ",")[k] : k \in 1..Len(Split(v.features, ",")) }

Suitable(v, args) ==
    /\ GetCapacity(v) >= args.min_capacity
    /\ \A k \in 1..Len(args.required_features.list) :
          args.required_features.list[k] \in FeaturesOf(v)

\* C17: the returned list is the input list without the vehicles that lack the
\* capacity or one of the required features: every returned vehicle has both,
\* and every input vehicle that has both is returned, in the input order.
C17_CapacityAndFeatures ==
    FilterReturned => vResult = SelectSeq(vArgs.vehicles, LAMBDA v : Suitable(v, vArgs))

(***************************************************************************)
(* Properties of the chat page.                                            *)
(***************************************************************************)
Geocoded(geo) == geo # EmptyDict
BothCoordinates == session.pickup_coords # << >> /\ session.dropoff_coords # << >>

\* C18: in every state of the chat session, route_data is set only if both pairs
\* of coordinates are set, and a message whose pickup or dropoff lookup did not
\* succeed (ambiguous, not found or failed) leads to no call of calculate_route
\* and leaves route_data unset; calculate_route is called only with both pairs.
C18_RouteOnlyAfterBothResolved ==
    /\ session.route_data # EmptyRoute => BothCoordinates
    /\ chatLog.route_called => BothCoordinates
    /\ (\/ Geocoded(chatLog.pickup_geo) /\ ~chatLog.pickup_geo.success
        \/ Geocoded(chatLog.dropoff_geo) /\ ~chatLog.dropoff_geo.success)
          => ~chatLog.route_called /\ session.route_data = EmptyRoute

\* a message whose pickup is ambiguous and whose dropoff is found: no route
C18_Witness ==
    /\ chatLog.pickup_geo.ambiguous
    /\ chatLog.dropoff_geo.success
    /\ session.dropoff_coords # << >>
    /\ ~chatLog.route_called
    /\ session.route_data = EmptyRoute

\* a message was handled in this step
MessageHandled == session'.messages > session.messages

\* C29: a failed resolution does not block a later one: when the pickup (or the
\* dropoff) of the session has a text but no coordinates and the user sends a
\* message that names a pickup (or a dropoff), geocode_location is called for it.
C29_FailedLookupCanBeRetried ==
    [][ MessageHandled =>
          /\ (/\ session.pickup_location # "" /\ session.pickup_coords = << >>
              /\ chatLog'.pickup_text # "")
                => Geocoded(chatLog'.pickup_geo)
          /\ (/\ session.dropoff_location # "" /\ session.dropoff_coords = << >>
              /\ chatLog'.dropoff_text # "")
                => Geocoded(chatLog'.dropoff_geo) ]_vars

\* C30: when nobody is logged in, the session holds no trip state: messages,
\* locations, coordinates, route_data and locations_confirmed have their initial
\* values.
C30_LogoutClearsTrip == auth = "" => session = NewSession

(***************************************************************************)
(* Properties of the booking tools.                                        *)
(***************************************************************************)
\* the last call is a cancel_booking that succeeded for a booking of the database
CancelledBooking ==
    /\ dbLast.op = "cancel_booking"
    /\ dbLast.success
    /\ dbLast.booking_id # ""

\* C19: after cancel_booking succeeded for a booking, the vehicle of that booking
\* has the status 'available' again and is among the vehicles that
\* list_available_vehicles returns.
C19_CancelFreesVehicle ==
    CancelledBooking =>
        \A k \in 1..Len(db.bookings) :
            db.bookings[k].booking_id = dbLast.booking_id =>
                /\ db.bookings[k].status = "cancelled"
                /\ db.vehicles[db.bookings[k].vehicle_id].status = "available"
                /\ \E i \in 1..Len(get_available_vehicles("")) :
                      get_available_vehicles("")[i] = db.bookings[k].vehicle_id

\* C20: after cancel_booking succeeded for a booking id (BK-...), no event that
\* create_calendar_booking created for that booking is left in the calendar.
C20_CancelRemovesEvent ==
    (CancelledBooking /\ StartsWith(dbLast.arg, "BK-"))
        => \A e \in calendar.events : e.dispatch_id # dbLast.booking_id

(***************************************************************************)
(* Properties of recommend_best_vehicle.                                   *)
(***************************************************************************)
RecReturned == qPc = "returned"

\* the offers of the returned dict, the primary recommendation first
OffersOf(result) ==
    IF result.primary_recommendation = NoOffer THEN << >>
    ELSE << result.primary_recommendation >> \o result.alternatives

Min(a, b) == IF a < b THEN a ELSE b

\* C21: the primary recommendation plus the alternatives are exactly the first
\* min(top_n, number of ranked vehicles) vehicles of the input, in input order, so
\* at most 3 with the default top_n; an empty input gives no primary
\* recommendation and no alternatives.
C21_FirstTopN ==
    RecReturned =>
        /\ OffersOf(qResult)
             = SubSeq(qArgs.ranked_vehicles, 1, Min(qArgs.top_n, Len(qArgs.ranked_vehicles)))
        /\ qArgs.top_n = DefaultTopN => Len(OffersOf(qResult)) <= 3
        /\ qArgs.ranked_vehicles = << >> => OffersOf(qResult) = << >>

\* the same for a top_n that is not negative
C21_FirstTopNOfNatural ==
    (RecReturned /\ qArgs.top_n >= 0) => C21_FirstTopN

\* capacity minus the requested passengers
CapacityDelta(offer) == offer.capacity - qArgs.passengers

\* the Economy options of the input
EconomyCandidates ==
    { qArgs.ranked_vehicles[k] : k \in 1..Len(qArgs.ranked_vehicles) }
        \cap { o \in Offers : o.tier = "Economy" }

\* C22: the offers are ranked: when the input holds Economy options, the cheapest
\* of them is the first offer, and of two offers with the same price the one with
\* the smaller capacity delta comes first.
C22_RankedCheapestEconomyFirst ==
    (RecReturned /\ qArgs.top_n >= 1) =>
        LET offers == OffersOf(qResult)
        IN  /\ EconomyCandidates # {} =>
                 /\ offers[1] \in EconomyCandidates
                 /\ \A o \in EconomyCandidates : offers[1].price <= o.price
            /\ \A i, j \in 1..Len(offers) :
                 (i < j /\ offers[i].price = offers[j].price)
                    => CapacityDelta(offers[i]) <= CapacityDelta(offers[j])

(***************************************************************************)
(* Properties of the straight-line fallback.                               *)
(***************************************************************************)
\* the fallback for the journey back of the running call
ReverseFallback == _calculate_haversine_fallback(rArgs[3], rArgs[4], rArgs[1], rArgs[2])

\* calculate_route answered with the fallback
FallbackReturned == rPc = "done" /\ rResult.source = "Haversine formula (fallback)"

\* C23: the fallback distance of route(a, b) equals the fallback distance of
\* route(b, a), and when the fallback raises for (a, b) it raises for (b, a).
C23_FallbackSymmetric ==
    /\ FallbackReturned =>
          /\ ReverseFallback.raised = ""
          /\ ReverseFallback.distance_km = rResult.distance_km
    /\ (rPc = "done" /\ rRaised # "") => ReverseFallback.raised = rRaised

\* a fallback distance between two places on different parallels
C23_Witness ==
    /\ FallbackReturned
    /\ rArgs[1] # rArgs[3] /\ rArgs[2] # rArgs[4]
    /\ rResult.distance_km > 0
    /\ ReverseFallback.distance_km = rResult.distance_km

(***************************************************************************)
(* Properties of the alias table.                                          *)
(***************************************************************************)
\* C24: when the text of a call equals, trimmed and in lower case, a key of the
\* alias table, the query sent for it is the value bound to that same key.
C24_ExactMatchFirst ==
    gPc # "idle" =>
        \A k \in 1..Len(enhancements) :
            Strip(Lower(gInput)) = enhancements[k][1] => gLookups[1].q = enhancements[k][2]

(***************************************************************************)
(* Properties of book_vehicle.                                             *)
(***************************************************************************)
\* the dispatches of a vehicle
DispatchesOf(vehicle_id) ==
    { k \in 1..Len(db.dispatches) : db.dispatches[k].vehicle_id = vehicle_id }

\* C25: under any interleaving of book_vehicle calls, no two calls for the same
\* vehicle both return status 'booked', and no vehicle is dispatched twice.
C25_NoDoubleBooking ==
    /\ \A s, t \in Sessions :
          (/\ s # t
           /\ calls[s].result.status = "booked"
           /\ calls[t].result.status = "booked")
             => calls[s].vehicle_id # calls[t].vehicle_id
    /\ \A v \in VehicleIds : Cardinality(DispatchesOf(v)) <= 1

\* the rows of the three tables
Tables(d) == << d.vehicles, d.bookings, d.dispatches >>

\* C26: a book_vehicle call that returns a failure leaves the database as it was:
\* no booking row, no dispatch row and no vehicle status has changed.
C26_FailureLeavesDatabase ==
    [][ (dbLast'.op = "book_vehicle" /\ ~dbLast'.success) => Tables(db') = Tables(db) ]_vars

\* the user_id the last book_vehicle call passed, read from the dispatch it created
BookedFor ==
    LET rows == SelectSeq(db.dispatches, LAMBDA d : d.dispatch_id = dbLast.dispatch_id)
    IN  IF Len(rows) > 0 THEN rows[1].user_id ELSE ""

\* C27: after a book_vehicle call with a user_id returned success, there is exactly
\* one booking row with the returned booking_id, a BK- id; the row is confirmed and
\* owned by that user, so get_my_bookings(user_id) lists it; there is exactly one
\* dispatch row for the vehicle and the vehicle is 'on_trip'.
C27_SuccessCreatedBooking ==
    (dbLast.op = "book_vehicle" /\ dbLast.success /\ BookedFor # "") =>
        /\ StartsWith(dbLast.booking_id, "BK-")
        /\ Len(BookingsById(dbLast.booking_id)) = 1
        /\ \E k \in 1..Len(get_my_bookings(BookedFor)) :
              /\ get_my_bookings(BookedFor)[k].booking_id = dbLast.booking_id
              /\ get_my_bookings(BookedFor)[k].status = "confirmed"
              /\ get_my_bookings(BookedFor)[k].vehicle_id = dbLast.vehicle_id
        /\ Cardinality(DispatchesOf(dbLast.vehicle_id)) = 1
        /\ db.vehicles[dbLast.vehicle_id].status = "on_trip"

\* C28: the status of a booking changes to 'cancelled' only in a step made for the
\* user who owns the booking, whichever entry point is used.
C28_OnlyOwnerCancels ==
    [][ \A k \in 1..Len(db.bookings) :
          (db.bookings[k].status # "cancelled" /\ db'.bookings[k].status = "cancelled")
             => dbLast'.caller = db.bookings[k].user_id ]_vars

=============================================================================
